---- MODULE Spec2Model ----
(***************************************************************************)
(* camera-pipeline: the camera registry (camera_processor.c), the          *)
(* per-camera worker (camera_thread.c) and the callback pool               *)
(* (callback_utils.c).                                                     *)
(*                                                                         *)
(* Two builds of the registry and of the worker are present in the         *)
(* sources.  Spec models the current one (interruption pipe, stop with a   *)
(* bounded wait and immediate removal from the hash).  SpecCsrc models the *)
(* one under c_src/ (stop only raises the flag, the interrupt hook raises  *)
(* stop_requested itself, frames go through a consumer thread).            *)
(* SpecPool models the callback pool on its own.                           *)
(***************************************************************************)
EXTENDS Integers, Sequences, FiniteSets, TLC

\* ------------------------------------------------------------------ bounds
\* camera ids the host uses
NumIds == 2
\* camera contexts alive at a time (a worker thread each)
MaxCtx == 2
\* slots of the callback pool (DEFAULT_POOL_SIZE in the code)
PoolSize == 2
MaxConsumers == 2
\* bytes the environment may leave pending on descriptor 0
MaxStdin == 1
\* the highest target rate a camera is added with
MaxTarget == 5
\* capacity the decoded-frame queue is initialised with, and the frames the
\* producer decodes
QueueCapacity == 2
MaxFrames == 4

\* ------------------------------------------------------- program constants
MAX_WAIT_SECONDS == 3
CHECK_INTERVAL_MS == 100
MAX_ATTEMPTS == (MAX_WAIT_SECONDS * 1000) \div CHECK_INTERVAL_MS
\* bytes check_interrupt_pipe reads at once (char buf[10])
PIPE_READ_CHUNK == 10

\* camera_state_t
CAM_STATE_STOPPED == 0
CAM_STATE_CONNECTING == 1
CAM_STATE_CONNECTED == 2
CAM_STATE_DISCONNECTED == 3
CAM_STATE_WAITING_RECONNECT == 4
CAM_STATE_RECONNECTING == 5
\* no status delivered yet (observer only): a value outside camera_state_t
NO_STATUS == CAM_STATE_RECONNECTING + 1

Ids == 1..NumIds
Ctx == 1..MaxCtx
\* the host threads calling the API; Spec drives the first one only
Hosts == {"h1", "h2"}

Min(a, b) == IF a < b THEN a ELSE b

Abs(x) == IF x < 0 THEN 0 - x ELSE x

VARIABLES
    g_processor_initialized,  \* static volatile bool
    g_camera_contexts,        \* the uthash table: its entries (camera_id, context)
    g_interrupt_pipe,         \* TRUE when both fds are open
    pipe_bytes,               \* bytes pending on ctx->interrupt_read_fd: the pipe's
                              \* read end, or descriptor 0 in the c_src build
    ctx,                      \* camera_thread_context_t, by allocation number
    thr,                      \* the worker thread of each context
    host,                     \* the API call each host thread is inside
    last_call,                \* the API call that returned last (none while one runs)
    obs,                      \* what the host callbacks have seen, per context
    g_pool_initialized,       \* callback pool
    g_pool_size,
    g_pool_free_count,
    g_pool_indices,           \* array of free indices, slots 1..g_pool_size
    pool,                     \* g_callback_pool: ref_count and buffer of each slot
    held,                     \* per slot: frames delivered with it and not released
    stale,                    \* descriptors the host still points to after it
                              \* released them or after the pool was destroyed
    wild_access,              \* a pool call has touched memory outside the live
                              \* pool arrays (freed, or out of range)
    run_pc,                   \* one worker followed through run_camera_loop
    run_stop,                 \* its ctx->stop_requested
    run_state,                \* its ctx->state, the status posted last
    reconnect_attempts,       \* ctx->reconnect_attempts
    open_ret,                 \* what avformat_open_input returned last
    retry_count,              \* locals of initialize_ffmpeg_connection
    wait_seconds,
    delay_seconds,            \* locals of handle_reconnect
    start_phase,              \* tenths of a second into the second of
                              \* start_wait_time = time(NULL)
    naps,                     \* 100 ms naps taken in the reconnect wait
    performance_tracking_enabled,  \* of the camera's logger
    activity_overdue,         \* time_since_activity > timeout_seconds
    frame_overdue,            \* time_since_frame > timeout_seconds
    pace_pc,                  \* one worker followed through the pacing of
                              \* process_stream
    first_pts,                \* ctx->first_pts
    last_sent_pts,            \* ctx->last_sent_pts
    last_sent_pts_sec,        \* ctx->last_sent_pts_sec, in ticks
    anchor_age,               \* now - ctx->playback_anchor_mono, in ticks
    decoded,                  \* the frame handled last: its PTS, and whether
                              \* frame_cb got it
    slept,                    \* ticks slept before the frame handled last
    since_sent,               \* ticks since a frame went to frame_cb
    acq,                      \* per worker inside callback_pool_get_data: the
                              \* slot it has popped and not yet filled
    ps_pc,                    \* one worker followed through the read and decode
                              \* loops of process_stream
    ps_stop,                  \* its ctx->stop_requested
    ps_ret,                   \* the FFmpeg call it made last and what it returned
    packet_ref,               \* what ctx->packet refers to
    dec_pending,              \* frames the decoder has ready for
                              \* avcodec_receive_frame
    frame_input_counter,      \* ctx->frame_input_counter: frames decoded in the
                              \* current input window
    fps_op,                   \* one worker followed through its frame-rate
                              \* estimate: what it did last
    target_fps,               \* ctx->target_fps
    detected_fps,             \* detected_fps_from_metadata, in 1/FpsUnit FPS
    calculated_input_fps,     \* ctx->calculated_input_fps, in 1/FpsUnit FPS
    estimated_source_fps,     \* ctx->estimated_source_fps, in 1/FpsUnit FPS
    has_real_fps_measurement,
    frame_skip_ratio,         \* ctx->frame_skip_ratio, in 1/(FpsUnit * target_fps)
    frame_skip_count,
    frame_skip_accumulator,   \* in 1/(FpsUnit * target_fps)
    skip_sent,                \* should_send of the frame handled last
    q_frames,                 \* FrameQueue: the ring of frames (0 for NULL),
    q_head,                   \* head, tail and size,
    q_tail,
    q_size,
    frames_pushed,            \* and its counters
    frames_popped,
    frames_dropped,
    q_stop,                   \* *stop_requested of the queue's users
    q_push,                   \* the producer: where it is, and its frame
    q_pop,                    \* the consumers: where each is
    produced,                 \* frames the producer has decoded, numbered 1, 2, ..
    last_popped               \* the frame frame_queue_pop returned last

regVars == <<g_processor_initialized, g_camera_contexts, g_interrupt_pipe,
             pipe_bytes, ctx, thr, host, last_call, obs>>
poolVars == <<g_pool_initialized, g_pool_size, g_pool_free_count,
              g_pool_indices, pool, held, stale, wild_access>>
loopVars == <<run_pc, run_stop, run_state, reconnect_attempts, open_ret,
              retry_count, wait_seconds, delay_seconds, start_phase, naps,
              performance_tracking_enabled, activity_overdue, frame_overdue>>
paceVars == <<pace_pc, first_pts, last_sent_pts, last_sent_pts_sec, anchor_age,
              decoded, slept, since_sent>>
acqVars == <<acq>>
pumpVars == <<ps_pc, ps_stop, ps_ret, packet_ref, dec_pending, frame_input_counter>>
skipVars == <<fps_op, target_fps, detected_fps, calculated_input_fps,
              estimated_source_fps, has_real_fps_measurement, frame_skip_ratio,
              frame_skip_count, frame_skip_accumulator, skip_sent>>
queueVars == <<q_frames, q_head, q_tail, q_size, frames_pushed, frames_popped,
               frames_dropped, q_stop, q_push, q_pop, produced, last_popped>>
extraVars == <<acqVars, pumpVars, skipVars, queueVars>>
detailVars == <<loopVars, paceVars, extraVars>>
vars == <<regVars, poolVars, detailVars>>

\* ------------------------------------------------------------- contexts
NullCtx ==
    [camera_id |-> 0, active |-> FALSE, stop_requested |-> FALSE,
     state |-> CAM_STATE_STOPPED, status_cb |-> FALSE, frame_cb |-> FALSE,
     consumer_thread_id |-> FALSE, freed |-> FALSE]

\* a worker thread; in the legacy build also the consumer thread whose id is
\* in consumer_thread_id, and one consumer thread of an earlier connection
\* that is still running
NoThread ==
    [pc |-> "none", ret_pc |-> "none", cancel |-> FALSE,
     consumer |-> "none", old_consumer |-> "none"]

NoObs ==
    [last |-> NO_STATUS, stopped_n |-> 0, after_stopped |-> FALSE,
     uaf |-> FALSE, own_stop |-> FALSE]

\* a context after free(): the memory holds nothing the program may rely on
FreedCtx(cx) == [NullCtx EXCEPT !.camera_id = cx.camera_id, !.freed = TRUE]

IdleHost == [pc |-> "idle", camera_id |-> 0, c |-> 0, attempt |-> 0, list |-> <<>>]

\* a worker thread that has not terminated
Running(c) ==
    thr[c].pc \notin {"none", "done", "cancelled", "cancelled_locked", "crashed"}
\* pthread_tryjoin_np returns 0
Terminated(c) == thr[c].pc \in {"done", "cancelled", "cancelled_locked", "crashed"}

\* g_pool_mutex is locked: a worker is inside the locked part of
\* callback_pool_get_data, or ended there
PoolMutexHeld == \E c \in Ctx : thr[c].pc \in {"pool_empty_log", "cancelled_locked"}

HASH_COUNT == Cardinality(g_camera_contexts)

\* a lookup that finds no entry, whatever the table holds
find_context_in_empty_table(camera_id) ==
    IF \E e \in {} : e.camera_id = camera_id THEN camera_id ELSE 0

\* HASH_FIND_INT: the context of an entry with this key, 0 when there is none
find_context_by_id(camera_id) ==
    IF \E e \in g_camera_contexts : e.camera_id = camera_id
    THEN (CHOOSE e \in g_camera_contexts : e.camera_id = camera_id).context
    ELSE 0

\* HASH_ADD_INT, which does not look for the key
HASH_ADD(camera_id, c) ==
    g_camera_contexts \cup {[camera_id |-> camera_id, context |-> c]}

\* HASH_DEL of the entry that holds context c
HASH_DEL(c) == {e \in g_camera_contexts : e.context # c}

\* the context is in the table
InTable(c) == \E e \in g_camera_contexts : e.context = c

\* malloc in processor_add_camera: a context comes from memory no live context
\* and no thread occupies; the lowest free one is taken
FreeSlots ==
    {c \in Ctx : ~Running(c) /\ (ctx[c].freed \/ ctx[c].camera_id = 0)}

NewSlot == CHOOSE c \in FreeSlots : \A d \in FreeSlots : c <= d

\* a completed API call: what was called, on which id, what it returned and
\* how many cameras the table held when it was entered (card_in) and when it
\* returned (card)
Call(op, id, ret, card_in, card) ==
    [op |-> op, id |-> id, ret |-> ret, card_in |-> card_in, card |-> card]

NoCall == Call("none", 0, 0, 0, 0)

\* --------------------------------------------------------- initial state
InitReg ==
    /\ g_processor_initialized = FALSE
    /\ g_camera_contexts = {}
    /\ g_interrupt_pipe = FALSE
    /\ pipe_bytes = 0
    /\ ctx = [c \in Ctx |-> NullCtx]
    /\ thr = [c \in Ctx |-> NoThread]
    /\ host = [h \in Hosts |-> IdleHost]
    /\ last_call = NoCall
    /\ obs = [c \in Ctx |-> NoObs]

InitPool ==
    /\ g_pool_initialized = FALSE
    /\ g_pool_size = 0
    /\ g_pool_free_count = 0
    /\ g_pool_indices = <<>>
    /\ pool = <<>>
    /\ held = <<>>
    /\ stale = {}
    /\ wild_access = FALSE

\* the worker followed in detail: not created yet
InitLoop ==
    /\ run_pc = "none"
    /\ run_stop = FALSE
    /\ run_state = CAM_STATE_STOPPED
    /\ reconnect_attempts = 0
    /\ open_ret = "none"
    /\ retry_count = 0
    /\ wait_seconds = 0
    /\ delay_seconds = 0
    /\ start_phase = 0
    /\ naps = 0
    /\ performance_tracking_enabled = FALSE
    /\ activity_overdue = FALSE
    /\ frame_overdue = FALSE

\* the worker followed through the pacing: not connected yet
InitPacing ==
    /\ pace_pc = "none"
    /\ first_pts = 0 - 1
    /\ last_sent_pts = 0 - 1
    /\ last_sent_pts_sec = 0
    /\ anchor_age = 0
    /\ decoded = [pts |-> 0 - 1, sent |-> FALSE]
    /\ slept = 0
    /\ since_sent = 0

\* no worker is inside callback_pool_get_data
InitAcq == acq = [w \in Ctx |-> <<>>]

\* the worker followed through process_stream: not connected yet
InitPump ==
    /\ ps_pc = "none"
    /\ ps_stop = FALSE
    /\ ps_ret = [op |-> "none", ret |-> "none"]
    /\ packet_ref = "none"
    /\ dec_pending = 0
    /\ frame_input_counter = 0

\* the worker followed through its frame-rate estimate: no camera added yet
InitSkip ==
    /\ fps_op = "none"
    /\ target_fps = 0
    /\ detected_fps = 0
    /\ calculated_input_fps = 0
    /\ estimated_source_fps = 0
    /\ has_real_fps_measurement = FALSE
    /\ frame_skip_ratio = 0
    /\ frame_skip_count = 0
    /\ frame_skip_accumulator = 0
    /\ skip_sent = FALSE

\* frame_queue_init(queue, capacity): an empty ring, the counters at 0; the
\* producer and the consumers not yet in a call
InitQueue ==
    /\ q_frames = [i \in 0..(QueueCapacity - 1) |-> 0]
    /\ q_head = 0
    /\ q_tail = 0
    /\ q_size = 0
    /\ frames_pushed = 0
    /\ frames_popped = 0
    /\ frames_dropped = 0
    /\ q_stop = FALSE
    /\ q_push = [pc |-> "idle", frame |-> 0]
    /\ q_pop = [k \in 1..MaxConsumers |-> "idle"]
    /\ produced = 0
    /\ last_popped = 0

InitExtra == InitAcq /\ InitPump /\ InitSkip /\ InitQueue

Init == InitReg /\ InitPool /\ InitLoop /\ InitPacing /\ InitExtra

\* ------------------------------------------------------- callback_utils.c
\* the slots of g_callback_pool, numbered as in the C array
PoolSlots == 0..(PoolSize - 1)

\* the free list: the first g_pool_free_count entries of g_pool_indices
FreeList == SubSeq(g_pool_indices, 1, g_pool_free_count)

\* data - g_callback_pool for a pointer that is no element of the array: an
\* index outside the pool
ForeignIndex == PoolSize

\* callback_pool_initialize(0): idempotent; either malloc may fail
callback_pool_initialize(alloc_ok) ==
    IF g_pool_initialized
    THEN UNCHANGED poolVars
    ELSE IF ~alloc_ok
    THEN /\ g_pool_size' = 0
         /\ UNCHANGED <<g_pool_initialized, g_pool_free_count, g_pool_indices,
                        pool, held, stale, wild_access>>
    ELSE /\ g_pool_size' = PoolSize
         /\ pool' = [i \in PoolSlots |-> [ref_count |-> 0, buf |-> FALSE]]
         /\ g_pool_indices' = [k \in 1..PoolSize |-> k - 1]
         /\ g_pool_free_count' = PoolSize
         /\ g_pool_initialized' = TRUE
         /\ held' = [i \in PoolSlots |-> 0]
         /\ stale' = {}
         /\ wild_access' = FALSE

\* what callback_pool_initialize returns
callback_pool_initialize_ok(alloc_ok) == g_pool_initialized \/ alloc_ok

\* what free() may leave in the memory of a descriptor
FreedDescriptors == [ref_count : {0, 1}, buf : BOOLEAN]

\* callback_pool_destroy: buffers left in the slots are freed, the arrays are
\* freed, the counters zeroed.  No ref_count is looked at or reset and
\* descriptors the host holds are not waited for: the host is left with
\* pointers into the freed array, and pool keeps, for those descriptors only,
\* what that memory holds
callback_pool_destroy ==
    IF ~g_pool_initialized
    THEN UNCHANGED poolVars
    ELSE /\ g_pool_size' = 0
         /\ g_pool_free_count' = 0
         /\ g_pool_indices' = <<>>
         /\ IF \A i \in DOMAIN held : held[i] = 0
            THEN pool' = <<>>
            ELSE pool' \in [{i \in DOMAIN held : held[i] > 0} -> FreedDescriptors]
         /\ g_pool_initialized' = FALSE
         /\ held' = <<>>
         /\ stale' = stale \cup {i \in DOMAIN held : held[i] > 0}
         /\ UNCHANGED wild_access

\* a release that frees the buffer and leaves the index out of the free list
callback_pool_return_data_keeps_slot(i) ==
    /\ pool' = IF i \in DOMAIN pool
               THEN [pool EXCEPT ![i].buf = FALSE]
               ELSE pool
    /\ UNCHANGED <<g_pool_indices, g_pool_free_count, wild_access>>

\* callback_pool_return_data(data), data given by its index data -
\* g_callback_pool.  With the pool not initialised, data->data[0] is read and
\* freed: for a descriptor of a destroyed pool that is a read of the freed
\* array.  Otherwise the pointer-range and ref_count == 0 tests are commented
\* out in the source: the buffer is freed if there is one, and the index is
\* pushed whenever the list is not full, whether or not it is a slot of the
\* pool and whether or not the slot is already in the list
callback_pool_return_data(i) ==
    IF ~g_pool_initialized
    THEN /\ wild_access' = (wild_access \/ i \in PoolSlots)
         /\ UNCHANGED <<g_pool_indices, g_pool_free_count, pool>>
    ELSE IF g_pool_free_count < g_pool_size
    THEN /\ g_pool_indices' = [g_pool_indices EXCEPT ![g_pool_free_count + 1] = i]
         /\ g_pool_free_count' = g_pool_free_count + 1
         /\ pool' = IF i \in DOMAIN pool
                    THEN [pool EXCEPT ![i] = [ref_count |-> 0, buf |-> FALSE]]
                    ELSE pool
         /\ UNCHANGED wild_access
    ELSE /\ pool' = IF i \in DOMAIN pool
                    THEN [pool EXCEPT ![i].buf = FALSE]
                    ELSE pool
         /\ UNCHANGED <<g_pool_indices, g_pool_free_count, wild_access>>

\* callback_pool_get_data: NULL when the pool is not initialised, the frame is
\* not usable or no index is free.  Otherwise the last free index is popped
\* under the lock and the slot marked in use; the frame is then copied outside
\* the lock.  A failure there hands the slot back through
\* callback_pool_return_data (the index goes back where it was popped); a
\* success gives the host one more descriptor of slot i.  An index that is no
\* slot of the pool makes &g_callback_pool[data_index] a pointer outside the
\* array, which is written through
callback_pool_get_data(frame_ok, fill_ok) ==
    IF ~g_pool_initialized \/ ~frame_ok \/ g_pool_free_count = 0
    THEN UNCHANGED poolVars
    ELSE LET i == g_pool_indices[g_pool_free_count] IN
         IF i \notin PoolSlots
         THEN /\ wild_access' = TRUE
              /\ g_pool_free_count' = IF fill_ok THEN g_pool_free_count - 1
                                      ELSE g_pool_free_count
              /\ UNCHANGED <<g_pool_initialized, g_pool_size, g_pool_indices,
                             pool, held, stale>>
         ELSE IF fill_ok
         THEN /\ g_pool_free_count' = g_pool_free_count - 1
              /\ pool' = [pool EXCEPT ![i] = [ref_count |-> 1, buf |-> TRUE]]
              /\ held' = [held EXCEPT ![i] = Min(@ + 1, 2)]
              /\ stale' = stale \ {i}
              /\ UNCHANGED <<g_pool_initialized, g_pool_size, g_pool_indices,
                             wild_access>>
         ELSE /\ pool' = [pool EXCEPT ![i] = [ref_count |-> 0, buf |-> FALSE]]
              /\ UNCHANGED <<g_pool_initialized, g_pool_size, g_pool_free_count,
                             g_pool_indices, held, stale, wild_access>>

\* --------------------------------------- camera_processor.c (current build)
\* clear_interrupt_pipe: non-blocking reads until the pipe is empty
clear_interrupt_pipe(n) == IF g_interrupt_pipe THEN 0 ELSE n

\* interrupt_camera_thread: one byte written to the shared pipe, then SIGUSR1
\* (whose handler does nothing)
interrupt_camera_thread(n) == IF g_interrupt_pipe THEN n + 1 ELSE n

\* a processor_initialize that empties the table before it looks at
\* g_processor_initialized
processor_initialize_resets_table(h) ==
    /\ host[h].pc = "idle"
    /\ IF g_processor_initialized
       THEN /\ last_call' = Call("init", 0, 0, HASH_COUNT, HASH_COUNT)
            /\ g_camera_contexts' = {}
            /\ UNCHANGED <<g_processor_initialized, g_interrupt_pipe,
                           pipe_bytes, poolVars>>
       ELSE \E pipe_ok \in BOOLEAN :
            IF ~pipe_ok
            THEN /\ last_call' = Call("init", 0, -1, HASH_COUNT, HASH_COUNT)
                 /\ UNCHANGED <<g_processor_initialized, g_interrupt_pipe,
                                pipe_bytes, poolVars>>
            ELSE \E alloc_ok \in BOOLEAN :
                 /\ callback_pool_initialize(alloc_ok)
                 /\ g_processor_initialized' = callback_pool_initialize_ok(alloc_ok)
                 /\ g_interrupt_pipe' = callback_pool_initialize_ok(alloc_ok)
                 /\ pipe_bytes' = 0
                 /\ last_call' = Call("init", 0,
                        IF callback_pool_initialize_ok(alloc_ok) THEN 0 ELSE -1,
                        HASH_COUNT, HASH_COUNT)
    /\ g_processor_initialized => UNCHANGED <<ctx, thr, host, obs>>
    /\ ~g_processor_initialized => UNCHANGED <<g_camera_contexts, ctx, thr, host, obs>>
    /\ UNCHANGED detailVars

\* processor_initialize: idempotent; pipe() or the pool may fail, and a pool
\* failure closes the pipe again
processor_initialize(h) ==
    /\ host[h].pc = "idle"
    /\ IF g_processor_initialized
       THEN /\ last_call' = Call("init", 0, 0, HASH_COUNT, HASH_COUNT)
            /\ UNCHANGED <<g_processor_initialized, g_interrupt_pipe,
                           pipe_bytes, poolVars>>
       ELSE \E pipe_ok \in BOOLEAN :
            IF ~pipe_ok
            THEN /\ last_call' = Call("init", 0, -1, HASH_COUNT, HASH_COUNT)
                 /\ UNCHANGED <<g_processor_initialized, g_interrupt_pipe,
                                pipe_bytes, poolVars>>
            ELSE \E alloc_ok \in BOOLEAN :
                 /\ callback_pool_initialize(alloc_ok)
                 /\ g_processor_initialized' = callback_pool_initialize_ok(alloc_ok)
                 /\ g_interrupt_pipe' = callback_pool_initialize_ok(alloc_ok)
                 /\ pipe_bytes' = 0
                 /\ last_call' = Call("init", 0,
                        IF callback_pool_initialize_ok(alloc_ok) THEN 0 ELSE -1,
                        HASH_COUNT, HASH_COUNT)
    /\ UNCHANGED <<g_camera_contexts, ctx, thr, host, obs>>
    /\ UNCHANGED detailVars

\* a processor_add_camera that leaves the entry in the table when
\* pthread_create fails
processor_add_camera_no_rollback(h) ==
    /\ host[h].pc = "idle"
    /\ \E camera_id \in Ids :
        IF ~g_processor_initialized
        THEN /\ last_call' = Call("add", camera_id, -1, HASH_COUNT, HASH_COUNT)
             /\ UNCHANGED <<g_camera_contexts, pipe_bytes, ctx, thr, obs>>
        ELSE \E url_ok \in BOOLEAN :
        IF ~url_ok
        THEN /\ last_call' = Call("add", camera_id, -3, HASH_COUNT, HASH_COUNT)
             /\ UNCHANGED <<g_camera_contexts, pipe_bytes, ctx, thr, obs>>
        ELSE IF find_context_by_id(camera_id) # 0
        THEN /\ last_call' = Call("add", camera_id, -4, HASH_COUNT, HASH_COUNT)
             /\ UNCHANGED <<g_camera_contexts, pipe_bytes, ctx, thr, obs>>
        ELSE \E malloc_ok \in BOOLEAN :
        IF ~malloc_ok
        THEN /\ last_call' = Call("add", camera_id, -5, HASH_COUNT, HASH_COUNT)
             /\ UNCHANGED <<g_camera_contexts, pipe_bytes, ctx, thr, obs>>
        ELSE \E create_ok \in BOOLEAN :
             /\ FreeSlots # {}
             /\ pipe_bytes' = clear_interrupt_pipe(pipe_bytes)
             /\ IF create_ok
                THEN /\ \E status_cb \in BOOLEAN, frame_cb \in BOOLEAN :
                        ctx' = [ctx EXCEPT ![NewSlot] =
                            [NullCtx EXCEPT !.camera_id = camera_id,
                                            !.active = TRUE,
                                            !.stop_requested = FALSE,
                                            !.state = CAM_STATE_CONNECTING,
                                            !.status_cb = status_cb,
                                            !.frame_cb = frame_cb]]
                     /\ g_camera_contexts' = HASH_ADD(camera_id, NewSlot)
                     /\ thr' = [thr EXCEPT ![NewSlot] =
                                    [NoThread EXCEPT !.pc = "loop_top"]]
                     /\ obs' = [obs EXCEPT ![NewSlot] = NoObs]
                     /\ last_call' = Call("add", camera_id, 0, HASH_COUNT, HASH_COUNT + 1)
                ELSE /\ last_call' = Call("add", camera_id, -6, HASH_COUNT, HASH_COUNT)
                     /\ g_camera_contexts' = HASH_ADD(camera_id, NewSlot)
                     /\ UNCHANGED <<ctx, thr, obs>>
    /\ UNCHANGED <<g_processor_initialized, g_interrupt_pipe, host, poolVars>>
    /\ UNCHANGED detailVars

\* processor_add_camera, the whole call under contexts_mutex: the checks in
\* the order of the code, then the context, the hash entry, the pipe drained
\* and the thread created
processor_add_camera(h) ==
    /\ host[h].pc = "idle"
    /\ \E camera_id \in Ids :
        IF ~g_processor_initialized
        THEN /\ last_call' = Call("add", camera_id, -1, HASH_COUNT, HASH_COUNT)
             /\ UNCHANGED <<g_camera_contexts, pipe_bytes, ctx, thr, obs>>
        ELSE \E url_ok \in BOOLEAN :
        IF ~url_ok
        THEN /\ last_call' = Call("add", camera_id, -3, HASH_COUNT, HASH_COUNT)
             /\ UNCHANGED <<g_camera_contexts, pipe_bytes, ctx, thr, obs>>
        ELSE IF find_context_by_id(camera_id) # 0
        THEN /\ last_call' = Call("add", camera_id, -4, HASH_COUNT, HASH_COUNT)
             /\ UNCHANGED <<g_camera_contexts, pipe_bytes, ctx, thr, obs>>
        ELSE \E malloc_ok \in BOOLEAN :
        IF ~malloc_ok
        THEN /\ last_call' = Call("add", camera_id, -5, HASH_COUNT, HASH_COUNT)
             /\ UNCHANGED <<g_camera_contexts, pipe_bytes, ctx, thr, obs>>
        ELSE \E create_ok \in BOOLEAN :
             /\ FreeSlots # {}
             /\ pipe_bytes' = clear_interrupt_pipe(pipe_bytes)
             /\ IF create_ok
                THEN /\ \E status_cb \in BOOLEAN, frame_cb \in BOOLEAN :
                        ctx' = [ctx EXCEPT ![NewSlot] =
                            [NullCtx EXCEPT !.camera_id = camera_id,
                                            !.active = TRUE,
                                            !.stop_requested = FALSE,
                                            !.state = CAM_STATE_CONNECTING,
                                            !.status_cb = status_cb,
                                            !.frame_cb = frame_cb]]
                     /\ g_camera_contexts' = HASH_ADD(camera_id, NewSlot)
                     /\ thr' = [thr EXCEPT ![NewSlot] =
                                    [NoThread EXCEPT !.pc = "loop_top"]]
                     /\ obs' = [obs EXCEPT ![NewSlot] = NoObs]
                     /\ last_call' = Call("add", camera_id, 0, HASH_COUNT, HASH_COUNT + 1)
                ELSE /\ last_call' = Call("add", camera_id, -6, HASH_COUNT, HASH_COUNT)
                     /\ UNCHANGED <<g_camera_contexts, ctx, thr, obs>>
    /\ UNCHANGED <<g_processor_initialized, g_interrupt_pipe, host, poolVars>>
    /\ UNCHANGED detailVars

\* a stop that leaves the entry in the table when it goes to wait
processor_stop_camera_keeps_entry(h) ==
    /\ host[h].pc = "idle"
    /\ \E camera_id \in Ids :
        LET c == find_context_by_id(camera_id) IN
        IF ~g_processor_initialized
        THEN /\ last_call' = Call("stop", camera_id, -1, HASH_COUNT, HASH_COUNT)
             /\ UNCHANGED <<g_camera_contexts, pipe_bytes, ctx, host, obs>>
        ELSE IF c = 0
        THEN /\ last_call' = Call("stop", camera_id, -2, HASH_COUNT, HASH_COUNT)
             /\ UNCHANGED <<g_camera_contexts, pipe_bytes, ctx, host, obs>>
        ELSE /\ ctx' = [ctx EXCEPT ![c].stop_requested = TRUE, ![c].active = FALSE]
             /\ pipe_bytes' = interrupt_camera_thread(pipe_bytes)
             /\ UNCHANGED g_camera_contexts
             /\ host' = [host EXCEPT ![h] =
                    [IdleHost EXCEPT !.pc = "stop_tryjoin",
                                     !.camera_id = camera_id, !.c = c]]
             /\ obs' = [obs EXCEPT ![c].own_stop = TRUE]
             /\ last_call' = NoCall
    /\ UNCHANGED <<g_processor_initialized, g_interrupt_pipe, thr, poolVars>>
    /\ UNCHANGED detailVars

\* processor_stop_camera up to the unlock: flags raised, byte written, entry
\* taken out of the hash; the wait for the thread follows outside the mutex
processor_stop_camera(h) ==
    /\ host[h].pc = "idle"
    /\ \E camera_id \in Ids :
        LET c == find_context_by_id(camera_id) IN
        IF ~g_processor_initialized
        THEN /\ last_call' = Call("stop", camera_id, -1, HASH_COUNT, HASH_COUNT)
             /\ UNCHANGED <<g_camera_contexts, pipe_bytes, ctx, host, obs>>
        ELSE IF c = 0
        THEN /\ last_call' = Call("stop", camera_id, -2, HASH_COUNT, HASH_COUNT)
             /\ UNCHANGED <<g_camera_contexts, pipe_bytes, ctx, host, obs>>
        ELSE /\ ctx' = [ctx EXCEPT ![c].stop_requested = TRUE, ![c].active = FALSE]
             /\ pipe_bytes' = interrupt_camera_thread(pipe_bytes)
             /\ g_camera_contexts' = HASH_DEL(c)
             /\ host' = [host EXCEPT ![h] =
                    [IdleHost EXCEPT !.pc = "stop_tryjoin",
                                     !.camera_id = camera_id, !.c = c]]
             /\ obs' = [obs EXCEPT ![c].own_stop = TRUE]
             /\ last_call' = NoCall
    /\ UNCHANGED <<g_processor_initialized, g_interrupt_pipe, thr, poolVars>>
    /\ UNCHANGED detailVars

\* the end of processor_stop_camera: free(ctx_to_free), free(context_entry),
\* return 0, whatever the join said.  A thread that is still running goes on
\* without a context ("detached"; one blocked in the hook's read stays there)
stop_camera_return(h) ==
    /\ ctx' = [ctx EXCEPT ![host[h].c] = FreedCtx(@)]
    /\ thr' = [thr EXCEPT ![host[h].c] =
            IF Terminated(host[h].c) THEN NoThread
            ELSE IF @.pc # "hook_read"
            THEN [@ EXCEPT !.pc = "detached"]
            ELSE [@ EXCEPT !.ret_pc = "none"]]
    /\ last_call' = Call("stop", host[h].camera_id, 0, HASH_COUNT + 1, HASH_COUNT)
    /\ host' = [host EXCEPT ![h] = IdleHost]

\* the first pthread_tryjoin_np, before any sleep
stop_camera_tryjoin(h) ==
    /\ host[h].pc = "stop_tryjoin"
    /\ IF Terminated(host[h].c)
       THEN stop_camera_return(h)
       ELSE /\ host' = [host EXCEPT ![h].pc = "stop_poll", ![h].attempt = 0]
            /\ UNCHANGED <<ctx, thr, last_call>>
    /\ UNCHANGED <<g_processor_initialized, g_camera_contexts, g_interrupt_pipe,
                   pipe_bytes, obs, poolVars>>
    /\ UNCHANGED detailVars

\* a wait loop without the limit of MAX_ATTEMPTS: it ends only when the join
\* succeeds
stop_camera_poll_until_joined(h) ==
    /\ host[h].pc = "stop_poll"
    /\ IF Terminated(host[h].c)
       THEN stop_camera_return(h)
       ELSE /\ host' = [host EXCEPT ![h].attempt = @ + 1]
            /\ UNCHANGED <<ctx, thr, last_call>>
    /\ UNCHANGED <<g_processor_initialized, g_camera_contexts, g_interrupt_pipe,
                   pipe_bytes, obs, poolVars>>
    /\ UNCHANGED detailVars

\* one turn of the wait loop: nanosleep(100 ms), pthread_tryjoin_np; the call
\* returns when the join succeeds or when attempt reaches MAX_ATTEMPTS
stop_camera_poll(h) ==
    /\ host[h].pc = "stop_poll"
    /\ host[h].attempt < MAX_ATTEMPTS
    /\ IF Terminated(host[h].c) \/ host[h].attempt + 1 = MAX_ATTEMPTS
       THEN stop_camera_return(h)
       ELSE /\ host' = [host EXCEPT ![h].attempt = @ + 1]
            /\ UNCHANGED <<ctx, thr, last_call>>
    /\ UNCHANGED <<g_processor_initialized, g_camera_contexts, g_interrupt_pipe,
                   pipe_bytes, obs, poolVars>>
    /\ UNCHANGED detailVars

\* the contexts HASH_ITER visits; each thread is waited for in turn, so the
\* order of the list does not matter to what follows
RECURSIVE HashList(_)
HashList(c) ==
    IF c > MaxCtx THEN <<>>
    ELSE IF InTable(c)
         THEN <<c>> \o HashList(c + 1)
         ELSE HashList(c + 1)

\* processor_shutdown up to the unlock: every context flagged and interrupted,
\* the list of threads taken, the hash cleared
processor_shutdown(h) ==
    /\ host[h].pc = "idle"
    /\ IF ~g_processor_initialized
       THEN /\ last_call' = Call("shutdown", 0, 0, HASH_COUNT, HASH_COUNT)
            /\ UNCHANGED <<g_camera_contexts, pipe_bytes, ctx, host, obs>>
       ELSE \E malloc_ok \in {b \in BOOLEAN : HASH_COUNT > 0 \/ b} :
        IF ~malloc_ok
        THEN /\ last_call' = Call("shutdown", 0, -1, HASH_COUNT, HASH_COUNT)
             /\ UNCHANGED <<g_camera_contexts, pipe_bytes, ctx, host, obs>>
        ELSE /\ ctx' = [c \in Ctx |->
                    IF InTable(c)
                    THEN [ctx[c] EXCEPT !.stop_requested = TRUE, !.active = FALSE]
                    ELSE ctx[c]]
             /\ pipe_bytes' = IF g_interrupt_pipe THEN pipe_bytes + HASH_COUNT
                              ELSE pipe_bytes
             /\ obs' = [c \in Ctx |->
                    IF InTable(c)
                    THEN [obs[c] EXCEPT !.own_stop = TRUE]
                    ELSE obs[c]]
             /\ g_camera_contexts' = {}
             /\ host' = [host EXCEPT ![h] =
                    [IdleHost EXCEPT !.pc = "shutdown_join", !.list = HashList(1)]]
             /\ last_call' = NoCall
    /\ UNCHANGED <<g_processor_initialized, g_interrupt_pipe, thr, poolVars>>
    /\ UNCHANGED detailVars

\* one thread of the list: nanosleep(100 ms), pthread_tryjoin_np; a thread
\* still running after this one poll (attempt counts the polls made on it) is
\* cancelled and then joined without a time limit
shutdown_tryjoin(h) ==
    /\ host[h].pc = "shutdown_join"
    /\ host[h].list # <<>>
    /\ LET c == Head(host[h].list) IN
        IF Terminated(c)
        THEN /\ ctx' = [ctx EXCEPT ![c] = FreedCtx(@)]
             /\ host' = [host EXCEPT ![h].list = Tail(@)]
             /\ thr' = [thr EXCEPT ![c] = NoThread]
        ELSE /\ thr' = [thr EXCEPT ![c].cancel = TRUE]
             /\ host' = [host EXCEPT ![h].pc = "shutdown_cancel_join",
                                     ![h].attempt = 1]
             /\ UNCHANGED ctx
    /\ UNCHANGED <<g_processor_initialized, g_camera_contexts, g_interrupt_pipe,
                   pipe_bytes, last_call, obs, poolVars>>
    /\ UNCHANGED detailVars

\* pthread_join after pthread_cancel returns once the thread has ended; then
\* its context and hash entry are freed.  A mutex the thread owned when it
\* ended stays locked
shutdown_cancel_join(h) ==
    /\ host[h].pc = "shutdown_cancel_join"
    /\ Terminated(Head(host[h].list))
    /\ ctx' = [ctx EXCEPT ![Head(host[h].list)] = FreedCtx(@)]
    /\ host' = [host EXCEPT ![h].pc = "shutdown_join", ![h].list = Tail(@),
                            ![h].attempt = 0]
    /\ thr' = [thr EXCEPT ![Head(host[h].list)] =
                IF @.pc = "cancelled_locked"
                THEN [NoThread EXCEPT !.pc = "cancelled_locked"]
                ELSE NoThread]
    /\ UNCHANGED <<g_processor_initialized, g_camera_contexts, g_interrupt_pipe,
                   pipe_bytes, last_call, obs, poolVars>>
    /\ UNCHANGED detailVars

\* an end of processor_shutdown that leaves the processor marked initialised
shutdown_finish_stays_initialised(h) ==
    /\ host[h].pc = "shutdown_join"
    /\ host[h].list = <<>>
    /\ g_pool_initialized => ~PoolMutexHeld
    /\ g_interrupt_pipe' = FALSE
    /\ pipe_bytes' = 0
    /\ callback_pool_destroy
    /\ last_call' = Call("shutdown", 0, 0, HASH_COUNT, HASH_COUNT)
    /\ host' = [host EXCEPT ![h] = IdleHost]
    /\ UNCHANGED <<g_processor_initialized, g_camera_contexts, ctx, thr, obs>>
    /\ UNCHANGED detailVars

\* the end of processor_shutdown: the pipe closed, the pool destroyed, the
\* processor marked uninitialised
shutdown_finish(h) ==
    /\ host[h].pc = "shutdown_join"
    /\ host[h].list = <<>>
    /\ g_pool_initialized => ~PoolMutexHeld
    /\ g_interrupt_pipe' = FALSE
    /\ pipe_bytes' = 0
    /\ callback_pool_destroy
    /\ g_processor_initialized' = FALSE
    /\ last_call' = Call("shutdown", 0, 0, HASH_COUNT, HASH_COUNT)
    /\ host' = [host EXCEPT ![h] = IdleHost]
    /\ UNCHANGED <<g_camera_contexts, ctx, thr, obs>>
    /\ UNCHANGED detailVars

\* ------------------------------------------ camera_thread.c (current build)
\* update_camera_status: nothing happens when the state is already new_state;
\* otherwise the state is stored and status_cb, if set, is called
StatusCtx(cx, new_state) == [cx EXCEPT !.state = new_state]

\* what the host's status callback has seen after update_camera_status
StatusObs(o, cx, new_state) ==
    IF cx.state = new_state \/ ~cx.status_cb
    THEN o
    ELSE [o EXCEPT !.last = new_state,
                   !.stopped_n = IF new_state = CAM_STATE_STOPPED
                                 THEN Min(@ + 1, 2) ELSE @,
                   !.after_stopped = @ \/ o.stopped_n > 0]

update_camera_status(c, new_state) ==
    /\ ctx' = [ctx EXCEPT ![c] = StatusCtx(@, new_state)]
    /\ obs' = [obs EXCEPT ![c] = StatusObs(@, ctx[c], new_state)]

\* a worker step that runs on its own, live context
Step(c, at) == thr[c].pc = at /\ ~ctx[c].freed

Goto(c, to) == thr' = [thr EXCEPT ![c].pc = to]

\* run_camera_loop, top of the loop: the stop check, then
\* update_camera_status(CONNECTING).  The thread enters here with ctx->state
\* already CAM_STATE_CONNECTING (set by processor_add_camera and again at the
\* head of run_camera_loop)
W_LoopTop(c) ==
    /\ Step(c, "loop_top")
    /\ IF ctx[c].stop_requested
       THEN Goto(c, "exit_cleanup") /\ UNCHANGED <<ctx, obs>>
       ELSE /\ update_camera_status(c, CAM_STATE_CONNECTING)
            /\ Goto(c, "open")
    /\ UNCHANGED <<g_processor_initialized, g_camera_contexts, g_interrupt_pipe,
                   pipe_bytes, host, last_call, poolVars>>
    /\ UNCHANGED detailVars

\* check_interrupt_pipe, first half, called from interrupt_callback inside a
\* blocking avformat_open_input or av_read_frame of a worker whose own
\* stop_requested is clear: select() with a zero timeout finds the pipe readable
W_HookSelect(c) ==
    /\ thr[c].pc \in {"open", "pump"}
    /\ ~ctx[c].freed
    /\ ~ctx[c].stop_requested
    /\ g_interrupt_pipe /\ pipe_bytes > 0
    /\ thr' = [thr EXCEPT ![c].pc = "hook_read", ![c].ret_pc = thr[c].pc]
    /\ UNCHANGED <<g_processor_initialized, g_camera_contexts, g_interrupt_pipe,
                   pipe_bytes, ctx, host, last_call, obs, poolVars>>
    /\ UNCHANGED detailVars

\* check_interrupt_pipe, second half: read(fd, buf, 10) on the blocking
\* descriptor.  It returns once there is a byte; the hook then returns 1, so
\* avformat_open_input fails with AVERROR_EXIT (the retry loop sleeps, finds
\* stop_requested clear and opens again) and av_read_frame fails
\* (process_stream returns false)
W_HookRead(c) ==
    /\ Step(c, "hook_read")
    /\ g_interrupt_pipe /\ pipe_bytes > 0
    /\ pipe_bytes' = pipe_bytes - Min(pipe_bytes, PIPE_READ_CHUNK)
    /\ IF thr[c].ret_pc = "open"
       THEN thr' = [thr EXCEPT ![c].pc = "open", ![c].ret_pc = "none"]
       ELSE thr' = [thr EXCEPT ![c].pc = "reconnect", ![c].ret_pc = "none"]
    /\ UNCHANGED <<g_processor_initialized, g_camera_contexts, g_interrupt_pipe,
                   ctx, host, last_call, obs, poolVars>>
    /\ UNCHANGED detailVars

\* initialize_ffmpeg_connection, setup_video_decoder and
\* allocate_packets_and_frames.  A set stop flag makes the hook end the open
\* and the retry loop return false; otherwise the open succeeds, fails with a
\* retryable error (sleep, then open again) or fails for good, and the decoder
\* setup may fail too.  Success reports CONNECTED
W_Open(c) ==
    /\ Step(c, "open")
    /\ IF ctx[c].stop_requested
       THEN Goto(c, "exit_cleanup") /\ UNCHANGED <<ctx, obs>>
       ELSE \E outcome \in {"ok", "retryable", "failed"} :
            CASE outcome = "ok" ->
                    update_camera_status(c, CAM_STATE_CONNECTED) /\ Goto(c, "pump")
              [] outcome = "retryable" ->
                    Goto(c, "open") /\ UNCHANGED <<ctx, obs>>
              [] OTHER ->
                    Goto(c, "reconnect") /\ UNCHANGED <<ctx, obs>>
    /\ UNCHANGED <<g_processor_initialized, g_camera_contexts, g_interrupt_pipe,
                   pipe_bytes, host, last_call, poolVars>>
    /\ UNCHANGED detailVars

\* convert_and_dispatch_frame and what process_stream does with its result:
\* with no frame_cb the result is false (reconnect); with one,
\* callback_pool_get_data is asked for a descriptor and frame_cb called with
\* it, after which the loop goes on
convert_and_dispatch_frame(c) ==
    IF ~ctx[c].frame_cb
    THEN Goto(c, "reconnect") /\ UNCHANGED <<obs, poolVars>>
    ELSE \E fill_ok \in BOOLEAN :
         IF g_pool_initialized /\ g_pool_free_count > 0 /\ fill_ok
         THEN /\ obs' = [obs EXCEPT ![c].after_stopped =
                             @ \/ obs[c].stopped_n > 0]
              /\ Goto(c, "pump")
              /\ UNCHANGED poolVars
         ELSE /\ callback_pool_get_data(TRUE, fill_ok)
              /\ Goto(c, "cb_data_null")
              /\ UNCHANGED obs

\* process_stream, one turn of its loop.  A set stop flag ends it: true from
\* the checks at the top and in the receive loop, or a read error through the
\* hook, and run_camera_loop leaves either way without a report.  Otherwise a
\* stall or a read error or EOF returns false, or a packet is read: nothing to
\* send (EAGAIN, skipped or paced frame), or a frame for
\* convert_and_dispatch_frame, which fails when frame_cb is null or when the
\* conversion fails.  With a frame_cb it asks callback_pool_get_data for a
\* descriptor: none comes when the pool is not initialised, has no free index
\* or cannot allocate the buffer, and the worker is then in the branch that
\* logs the null cb_data.  The host of this specification hands every
\* descriptor back inside frame_cb, so callback_pool_get_data finds the pool
\* as callback_pool_return_data left it and the pool is the same after a
\* delivery (SpecPool has the host that keeps descriptors).  A frame that is
\* early for its presentation time is slept for before it is dispatched
W_Pump(c) ==
    /\ Step(c, "pump")
    /\ IF ctx[c].stop_requested
       THEN Goto(c, "exit_cleanup") /\ UNCHANGED <<obs, poolVars>>
       ELSE \E outcome \in {"stall", "error", "nothing", "frame", "convert_failed"} :
            CASE outcome \in {"stall", "error", "convert_failed"} ->
                    Goto(c, "reconnect") /\ UNCHANGED <<obs, poolVars>>
              [] outcome = "nothing" ->
                    UNCHANGED <<thr, obs, poolVars>>
              [] OTHER ->
                    \E early \in BOOLEAN :
                        IF early
                        THEN Goto(c, "pacing_sleep") /\ UNCHANGED <<obs, poolVars>>
                        ELSE convert_and_dispatch_frame(c)
    /\ UNCHANGED <<g_processor_initialized, g_camera_contexts, g_interrupt_pipe,
                   pipe_bytes, ctx, host, last_call>>
    /\ UNCHANGED detailVars

\* the pacing sleep returns (clock_nanosleep to the absolute presentation
\* time of the frame): its result is not looked at, stop_requested is not
\* read, and the frame goes to convert_and_dispatch_frame
W_PacingWake(c) ==
    /\ Step(c, "pacing_sleep")
    /\ convert_and_dispatch_frame(c)
    /\ UNCHANGED <<g_processor_initialized, g_camera_contexts, g_interrupt_pipe,
                   pipe_bytes, ctx, host, last_call>>
    /\ UNCHANGED detailVars

\* convert_and_dispatch_frame got no descriptor: it logs the failure and
\* returns false, process_stream takes that for an error of the stream (goto
\* process_stream_error) and returns false, and run_camera_loop goes on to
\* handle_reconnect
W_CbDataNull(c) ==
    /\ Step(c, "cb_data_null")
    /\ Goto(c, "reconnect")
    /\ UNCHANGED <<g_processor_initialized, g_camera_contexts, g_interrupt_pipe,
                   pipe_bytes, ctx, host, last_call, obs, poolVars>>
    /\ UNCHANGED detailVars

\* handle_reconnect: cleanup_ffmpeg_resources, stop check, report DISCONNECTED
W_Reconnect(c) ==
    /\ Step(c, "reconnect")
    /\ IF ctx[c].stop_requested
       THEN Goto(c, "exit_cleanup") /\ UNCHANGED <<ctx, obs>>
       ELSE update_camera_status(c, CAM_STATE_DISCONNECTED) /\ Goto(c, "backoff")
    /\ UNCHANGED <<g_processor_initialized, g_camera_contexts, g_interrupt_pipe,
                   pipe_bytes, host, last_call, poolVars>>
    /\ UNCHANGED detailVars

\* stop check, the delay computed, report WAITING_RECONNECT
W_Backoff(c) ==
    /\ Step(c, "backoff")
    /\ IF ctx[c].stop_requested
       THEN Goto(c, "exit_cleanup") /\ UNCHANGED <<ctx, obs>>
       ELSE update_camera_status(c, CAM_STATE_WAITING_RECONNECT) /\ Goto(c, "waiting")
    /\ UNCHANGED <<g_processor_initialized, g_camera_contexts, g_interrupt_pipe,
                   pipe_bytes, host, last_call, poolVars>>
    /\ UNCHANGED detailVars

\* a wait that ends with CONNECTED reported straight away
W_Waiting_reports_connected(c) ==
    /\ Step(c, "waiting")
    /\ update_camera_status(c, CAM_STATE_CONNECTED)
    /\ Goto(c, "pump")
    /\ UNCHANGED <<g_processor_initialized, g_camera_contexts, g_interrupt_pipe,
                   pipe_bytes, host, last_call, poolVars>>
    /\ UNCHANGED detailVars

\* the wait in 100 ms naps with a stop check each; then report RECONNECTING
\* and go back to the top of the loop
W_Waiting(c) ==
    /\ Step(c, "waiting")
    /\ IF ctx[c].stop_requested
       THEN Goto(c, "exit_cleanup") /\ UNCHANGED <<ctx, obs>>
       ELSE update_camera_status(c, CAM_STATE_RECONNECTING) /\ Goto(c, "loop_top")
    /\ UNCHANGED <<g_processor_initialized, g_camera_contexts, g_interrupt_pipe,
                   pipe_bytes, host, last_call, poolVars>>
    /\ UNCHANGED detailVars

\* thread_exit_cleanup: cleanup_ffmpeg_resources, report STOPPED, return
W_ExitCleanup(c) ==
    /\ Step(c, "exit_cleanup")
    /\ update_camera_status(c, CAM_STATE_STOPPED)
    /\ Goto(c, "done")
    /\ UNCHANGED <<g_processor_initialized, g_camera_contexts, g_interrupt_pipe,
                   pipe_bytes, host, last_call, poolVars>>
    /\ UNCHANGED detailVars

\* pthread_cancel from processor_shutdown takes effect at the worker's next
\* cancellation point (a sleep, a read, a log write): the thread ends there.
\* No cleanup handler is pushed anywhere, so a thread that ends in the log
\* write of callback_pool_get_data ends with g_pool_mutex locked
W_Cancelled(c) ==
    /\ Running(c)
    /\ thr[c].cancel
    /\ thr' = [thr EXCEPT ![c].pc = IF thr[c].pc = "pool_empty_log"
                                     THEN "cancelled_locked" ELSE "cancelled",
                           ![c].cancel = FALSE]
    /\ UNCHANGED <<g_processor_initialized, g_camera_contexts, g_interrupt_pipe,
                   pipe_bytes, ctx, host, last_call, obs, poolVars>>
    /\ UNCHANGED detailVars

\* a worker still running after processor_stop_camera timed out and freed its
\* context: its next look at ctx reads freed memory.  The build may crash
\* there, or find the old bytes (stop_requested set) and walk out through
\* thread_exit_cleanup, where the status callback read from the freed context
\* may or may not be called with STOPPED
W_UseAfterFree(c) ==
    /\ Running(c)
    /\ ctx[c].freed
    /\ thr[c].pc = "hook_read" => g_interrupt_pipe /\ pipe_bytes > 0
    /\ pipe_bytes' = IF thr[c].pc = "hook_read"
                     THEN pipe_bytes - Min(pipe_bytes, PIPE_READ_CHUNK)
                     ELSE pipe_bytes
    /\ \E outcome \in {"crash", "stopped_reported", "silent"} :
        /\ thr' = [thr EXCEPT ![c].pc = IF outcome = "crash" THEN "crashed"
                                        ELSE "done"]
        /\ obs' = [obs EXCEPT ![c] =
                IF outcome = "stopped_reported"
                THEN [@ EXCEPT !.uaf = TRUE, !.last = CAM_STATE_STOPPED,
                               !.stopped_n = Min(@ + 1, 2)]
                ELSE [@ EXCEPT !.uaf = TRUE]]
    /\ UNCHANGED <<g_processor_initialized, g_camera_contexts, g_interrupt_pipe,
                   ctx, host, last_call, poolVars>>
    /\ UNCHANGED detailVars

ActiveHost == "h1"

Worker(c) ==
    \/ W_LoopTop(c) \/ W_HookSelect(c) \/ W_HookRead(c)
    \/ W_Open(c) \/ W_Pump(c) \/ W_PacingWake(c) \/ W_CbDataNull(c)
    \/ W_Reconnect(c) \/ W_Backoff(c) \/ W_Waiting(c) \/ W_ExitCleanup(c)
    \/ W_Cancelled(c) \/ W_UseAfterFree(c)

HostApi(h) ==
    \/ processor_initialize(h) \/ processor_add_camera(h)
    \/ processor_stop_camera(h) \/ stop_camera_tryjoin(h) \/ stop_camera_poll(h)
    \/ processor_shutdown(h) \/ shutdown_tryjoin(h) \/ shutdown_cancel_join(h)
    \/ shutdown_finish(h)

Next ==
    \/ HostApi(ActiveHost)
    \/ \E c \in Ctx : Worker(c)

Spec == Init /\ [][Next]_vars

\* what the registry can see of a worker: it leaves when it finds
\* stop_requested at the top of its loop, it is cancelled, it runs on a freed
\* context, or it stays where it is (in a blocking call)
WorkerSeenByHosts(c) ==
    \/ W_LoopTop(c) \/ W_ExitCleanup(c) \/ W_Cancelled(c) \/ W_UseAfterFree(c)

\* the current build called from two host threads at once, both using camera
\* id 1: every call of the API takes contexts_mutex, and what it does while it
\* holds the mutex is one step
NextHosts ==
    \/ /\ \E h \in Hosts : HostApi(h)
       /\ last_call'.id \in {0, 1}
       /\ \A h \in Hosts : host'[h].camera_id \in {0, 1}
    \/ \E c \in Ctx : WorkerSeenByHosts(c)

SpecHosts == Init /\ [][NextHosts]_vars

\* ------------------------------------ c_src/src/camera_processor.c
\* processor_initialize of the c_src build: idempotent; no pipe is made
processor_initialize_csrc(h) ==
    /\ host[h].pc = "idle"
    /\ IF g_processor_initialized
       THEN /\ last_call' = Call("init", 0, 0, HASH_COUNT, HASH_COUNT)
            /\ UNCHANGED <<g_processor_initialized, poolVars>>
       ELSE \E alloc_ok \in BOOLEAN :
            /\ callback_pool_initialize(alloc_ok)
            /\ g_processor_initialized' = callback_pool_initialize_ok(alloc_ok)
            /\ last_call' = Call("init", 0,
                   IF callback_pool_initialize_ok(alloc_ok) THEN 0 ELSE -1,
                   HASH_COUNT, HASH_COUNT)
    /\ UNCHANGED <<g_camera_contexts, g_interrupt_pipe, pipe_bytes, ctx, thr,
                   host, obs>>
    /\ UNCHANGED detailVars

\* processor_add_camera of the c_src build.  The context is zeroed by memset
\* and interrupt_read_fd is never assigned: the hook of this build polls
\* descriptor 0.  The host of SpecCsrc always passes a frame callback (frames
\* are handed over by the consumer thread, which is left out)
processor_add_camera_csrc(h) ==
    /\ host[h].pc = "idle"
    /\ \E camera_id \in Ids :
        IF ~g_processor_initialized
        THEN /\ last_call' = Call("add", camera_id, -1, HASH_COUNT, HASH_COUNT)
             /\ UNCHANGED <<g_camera_contexts, ctx, thr, obs>>
        ELSE \E url_ok \in BOOLEAN :
        IF ~url_ok
        THEN /\ last_call' = Call("add", camera_id, -3, HASH_COUNT, HASH_COUNT)
             /\ UNCHANGED <<g_camera_contexts, ctx, thr, obs>>
        ELSE IF find_context_by_id(camera_id) # 0
        THEN /\ last_call' = Call("add", camera_id, -4, HASH_COUNT, HASH_COUNT)
             /\ UNCHANGED <<g_camera_contexts, ctx, thr, obs>>
        ELSE \E malloc_ok \in BOOLEAN :
        IF ~malloc_ok
        THEN /\ last_call' = Call("add", camera_id, -5, HASH_COUNT, HASH_COUNT)
             /\ UNCHANGED <<g_camera_contexts, ctx, thr, obs>>
        ELSE \E create_ok \in BOOLEAN :
             /\ FreeSlots # {}
             /\ IF create_ok
                THEN /\ \E status_cb \in BOOLEAN, frame_cb \in {TRUE} :
                        ctx' = [ctx EXCEPT ![NewSlot] =
                            [NullCtx EXCEPT !.camera_id = camera_id,
                                            !.active = TRUE,
                                            !.stop_requested = FALSE,
                                            !.state = CAM_STATE_CONNECTING,
                                            !.status_cb = status_cb,
                                            !.frame_cb = frame_cb]]
                     /\ g_camera_contexts' = HASH_ADD(camera_id, NewSlot)
                     /\ thr' = [thr EXCEPT ![NewSlot] =
                                    [NoThread EXCEPT !.pc = "c_start"]]
                     /\ obs' = [obs EXCEPT ![NewSlot] = NoObs]
                     /\ last_call' = Call("add", camera_id, 0, HASH_COUNT, HASH_COUNT + 1)
                ELSE /\ last_call' = Call("add", camera_id, -6, HASH_COUNT, HASH_COUNT)
                     /\ UNCHANGED <<g_camera_contexts, ctx, thr, obs>>
    /\ UNCHANGED <<g_processor_initialized, g_interrupt_pipe, pipe_bytes, host,
                   poolVars>>
    /\ UNCHANGED detailVars

\* processor_stop_camera of the c_src build: the flag is raised and the call
\* returns; the entry stays in the hash and stays active
processor_stop_camera_csrc(h) ==
    /\ host[h].pc = "idle"
    /\ \E camera_id \in Ids :
        LET c == find_context_by_id(camera_id) IN
        IF ~g_processor_initialized
        THEN /\ last_call' = Call("stop", camera_id, -1, HASH_COUNT, HASH_COUNT)
             /\ UNCHANGED <<ctx, obs>>
        ELSE IF c = 0 \/ ~ctx[c].active
        THEN /\ last_call' = Call("stop", camera_id, -2, HASH_COUNT, HASH_COUNT)
             /\ UNCHANGED <<ctx, obs>>
        ELSE /\ ctx' = [ctx EXCEPT ![c].stop_requested = TRUE]
             /\ obs' = [obs EXCEPT ![c].own_stop = TRUE]
             /\ last_call' = Call("stop", camera_id, 0, HASH_COUNT, HASH_COUNT)
    /\ UNCHANGED <<g_processor_initialized, g_camera_contexts, g_interrupt_pipe,
                   pipe_bytes, thr, host, poolVars>>
    /\ UNCHANGED detailVars

\* what processor_stop_camera of the c_src build returns for a camera id in
\* the state as it is
processor_stop_camera_csrc_returns(camera_id) ==
    IF ~g_processor_initialized THEN -1
    ELSE IF find_context_by_id(camera_id) = 0
            \/ ~ctx[find_context_by_id(camera_id)].active THEN -2
    ELSE 0

\* processor_shutdown of the c_src build up to the unlock: every active
\* context flagged and its thread listed
processor_shutdown_csrc(h) ==
    /\ host[h].pc = "idle"
    /\ IF ~g_processor_initialized
       THEN /\ last_call' = Call("shutdown", 0, 0, HASH_COUNT, HASH_COUNT)
            /\ UNCHANGED <<ctx, host, obs>>
       ELSE \E malloc_ok \in {b \in BOOLEAN : HASH_COUNT > 0 \/ b} :
        IF ~malloc_ok
        THEN /\ last_call' = Call("shutdown", 0, -1, HASH_COUNT, HASH_COUNT)
             /\ UNCHANGED <<ctx, host, obs>>
        ELSE /\ ctx' = [c \in Ctx |->
                    IF InTable(c) /\ ctx[c].active
                    THEN [ctx[c] EXCEPT !.stop_requested = TRUE]
                    ELSE ctx[c]]
             /\ obs' = [c \in Ctx |->
                    IF InTable(c) /\ ctx[c].active
                    THEN [obs[c] EXCEPT !.own_stop = TRUE]
                    ELSE obs[c]]
             /\ host' = [host EXCEPT ![h] =
                    [IdleHost EXCEPT !.pc = "c_shutdown_join",
                                     !.list = SelectSeq(HashList(1),
                                                  LAMBDA c : ctx[c].active)]]
             /\ last_call' = NoCall
    /\ UNCHANGED <<g_processor_initialized, g_camera_contexts, g_interrupt_pipe,
                   pipe_bytes, thr, poolVars>>
    /\ UNCHANGED detailVars

\* pthread_join on the next thread of the list, without a time limit, then
\* mark_context_inactive
shutdown_join_csrc(h) ==
    /\ host[h].pc = "c_shutdown_join"
    /\ host[h].list # <<>>
    /\ Terminated(Head(host[h].list))
    /\ ctx' = [ctx EXCEPT ![Head(host[h].list)].active = FALSE]
    /\ thr' = [thr EXCEPT ![Head(host[h].list)] = NoThread]
    /\ host' = [host EXCEPT ![h].list = Tail(@)]
    /\ UNCHANGED <<g_processor_initialized, g_camera_contexts, g_interrupt_pipe,
                   pipe_bytes, last_call, obs, poolVars>>
    /\ UNCHANGED detailVars

\* the end of processor_shutdown: every entry deleted and freed, the pool
\* destroyed, the processor marked uninitialised
shutdown_finish_csrc(h) ==
    /\ host[h].pc = "c_shutdown_join"
    /\ host[h].list = <<>>
    /\ ctx' = [c \in Ctx |->
            IF InTable(c)
            THEN FreedCtx(ctx[c]) ELSE ctx[c]]
    /\ g_camera_contexts' = {}
    /\ callback_pool_destroy
    /\ g_processor_initialized' = FALSE
    /\ last_call' = Call("shutdown", 0, 0, HASH_COUNT, 0)
    /\ host' = [host EXCEPT ![h] = IdleHost]
    /\ UNCHANGED <<g_interrupt_pipe, pipe_bytes, thr, obs>>
    /\ UNCHANGED detailVars

\* ---------------------------------------- c_src/src/camera_thread.c
\* run_camera_loop before its loop: frame_queue_init, whose failure makes the
\* thread return at once, then ctx->state = CAM_STATE_CONNECTING
C_Start(c) ==
    /\ Step(c, "c_start")
    /\ \E queue_ok \in BOOLEAN :
        IF queue_ok
        THEN /\ ctx' = [ctx EXCEPT ![c].state = CAM_STATE_CONNECTING]
             /\ Goto(c, "c_loop_top")
        ELSE Goto(c, "done") /\ UNCHANGED ctx
    /\ UNCHANGED <<g_processor_initialized, g_camera_contexts, g_interrupt_pipe,
                   pipe_bytes, host, last_call, obs, poolVars>>
    /\ UNCHANGED detailVars

\* top of the loop: the stop check, then update_camera_status(CONNECTING)
C_LoopTop(c) ==
    /\ Step(c, "c_loop_top")
    /\ IF ctx[c].stop_requested
       THEN Goto(c, "c_exit_cleanup") /\ UNCHANGED <<ctx, obs>>
       ELSE /\ update_camera_status(c, CAM_STATE_CONNECTING)
            /\ Goto(c, "c_open")
    /\ UNCHANGED <<g_processor_initialized, g_camera_contexts, g_interrupt_pipe,
                   pipe_bytes, host, last_call, poolVars>>
    /\ UNCHANGED detailVars

\* interrupt_callback of the c_src build, called inside avformat_open_input or
\* av_read_frame with stop_requested clear: check_interrupt_pipe finds
\* descriptor ctx->interrupt_read_fd (0) readable and reads up to
\* PIPE_READ_CHUNK bytes, and the hook sets ctx->stop_requested itself
C_Hook(c) ==
    /\ thr[c].pc \in {"c_open", "c_pump"}
    /\ ~ctx[c].freed
    /\ ~ctx[c].stop_requested
    /\ pipe_bytes > 0
    /\ pipe_bytes' = pipe_bytes - Min(pipe_bytes, PIPE_READ_CHUNK)
    /\ ctx' = [ctx EXCEPT ![c].stop_requested = TRUE]
    /\ UNCHANGED <<g_processor_initialized, g_camera_contexts, g_interrupt_pipe,
                   thr, host, last_call, obs, poolVars>>
    /\ UNCHANGED detailVars

\* the consumer threads of context c that are running
ConsumersAlive(c) ==
    Cardinality({f \in {"consumer", "old_consumer"} : thr[c][f] # "none"})

\* initialize_ffmpeg_connection, setup_video_decoder,
\* allocate_packets_and_frames, then CONNECTED is reported and the consumer
\* thread created; a failure of pthread_create goes to thread_exit_cleanup.
\* pthread_create overwrites consumer_thread_id: the consumer thread of the
\* connection before, which nothing has stopped or joined, runs on
C_Open(c) ==
    /\ Step(c, "c_open")
    /\ IF ctx[c].stop_requested
       THEN Goto(c, "c_exit_cleanup") /\ UNCHANGED <<ctx, obs>>
       ELSE \E outcome \in {"ok", "no_consumer", "retryable", "failed"} :
            CASE outcome = "ok" ->
                    /\ ConsumersAlive(c) < MaxConsumers
                    /\ ctx' = [ctx EXCEPT
                            ![c] = [StatusCtx(@, CAM_STATE_CONNECTED)
                                        EXCEPT !.consumer_thread_id = TRUE]]
                    /\ obs' = [obs EXCEPT
                            ![c] = StatusObs(@, ctx[c], CAM_STATE_CONNECTED)]
                    /\ thr' = [thr EXCEPT
                            ![c].pc = "c_pump",
                            ![c].consumer = "idle",
                            ![c].old_consumer =
                                IF thr[c].consumer # "none" THEN thr[c].consumer
                                ELSE @]
              [] outcome = "no_consumer" ->
                    /\ update_camera_status(c, CAM_STATE_CONNECTED)
                    /\ Goto(c, "c_exit_cleanup")
              [] outcome = "retryable" ->
                    Goto(c, "c_open") /\ UNCHANGED <<ctx, obs>>
              [] OTHER ->
                    Goto(c, "c_reconnect") /\ UNCHANGED <<ctx, obs>>
    /\ UNCHANGED <<g_processor_initialized, g_camera_contexts, g_interrupt_pipe,
                   pipe_bytes, host, last_call, poolVars>>
    /\ UNCHANGED detailVars

\* process_stream, one turn: a set stop flag ends it with true; EOF, a read
\* error or a decode error ends it with false; otherwise the frame is decoded
\* and queued for the consumer thread
C_Pump(c) ==
    /\ Step(c, "c_pump")
    /\ IF ctx[c].stop_requested
       THEN Goto(c, "c_exit_cleanup")
       ELSE \E outcome \in {"error", "queued"} :
            IF outcome = "error" THEN Goto(c, "c_reconnect") ELSE UNCHANGED thr
    /\ UNCHANGED <<g_processor_initialized, g_camera_contexts, g_interrupt_pipe,
                   pipe_bytes, ctx, host, last_call, obs, poolVars>>
    /\ UNCHANGED detailVars

\* handle_reconnect: cleanup, stop check, report DISCONNECTED
C_Reconnect(c) ==
    /\ Step(c, "c_reconnect")
    /\ IF ctx[c].stop_requested
       THEN Goto(c, "c_exit_cleanup") /\ UNCHANGED <<ctx, obs>>
       ELSE update_camera_status(c, CAM_STATE_DISCONNECTED) /\ Goto(c, "c_backoff")
    /\ UNCHANGED <<g_processor_initialized, g_camera_contexts, g_interrupt_pipe,
                   pipe_bytes, host, last_call, poolVars>>
    /\ UNCHANGED detailVars

\* stop check, the delay computed, report WAITING_RECONNECT
C_Backoff(c) ==
    /\ Step(c, "c_backoff")
    /\ IF ctx[c].stop_requested
       THEN Goto(c, "c_exit_cleanup") /\ UNCHANGED <<ctx, obs>>
       ELSE update_camera_status(c, CAM_STATE_WAITING_RECONNECT) /\ Goto(c, "c_waiting")
    /\ UNCHANGED <<g_processor_initialized, g_camera_contexts, g_interrupt_pipe,
                   pipe_bytes, host, last_call, poolVars>>
    /\ UNCHANGED detailVars

\* the wait in 100 ms naps with a stop check each, then report RECONNECTING
C_Waiting(c) ==
    /\ Step(c, "c_waiting")
    /\ IF ctx[c].stop_requested
       THEN Goto(c, "c_exit_cleanup") /\ UNCHANGED <<ctx, obs>>
       ELSE update_camera_status(c, CAM_STATE_RECONNECTING) /\ Goto(c, "c_loop_top")
    /\ UNCHANGED <<g_processor_initialized, g_camera_contexts, g_interrupt_pipe,
                   pipe_bytes, host, last_call, poolVars>>
    /\ UNCHANGED detailVars

\* consume_frames_thread, from frame_queue_pop into frame_cb: the loop runs
\* while stop_requested is clear, takes a decoded frame from the queue and
\* hands it to convert_and_dispatch_frame, which calls frame_cb on this thread
K_Dispatch(c) ==
    /\ ~ctx[c].freed
    /\ ~ctx[c].stop_requested
    /\ ctx[c].frame_cb
    /\ \E f \in {"consumer", "old_consumer"} :
        /\ thr[c][f] = "idle"
        /\ thr' = [thr EXCEPT ![c][f] = "in_cb"]
    /\ UNCHANGED <<g_processor_initialized, g_camera_contexts, g_interrupt_pipe,
                   pipe_bytes, ctx, host, last_call, obs, poolVars>>
    /\ UNCHANGED detailVars

\* frame_cb returns to the consumer thread
K_Return(c) ==
    /\ ~ctx[c].freed
    /\ \E f \in {"consumer", "old_consumer"} :
        /\ thr[c][f] = "in_cb"
        /\ thr' = [thr EXCEPT ![c][f] = "idle"]
    /\ UNCHANGED <<g_processor_initialized, g_camera_contexts, g_interrupt_pipe,
                   pipe_bytes, ctx, host, last_call, obs, poolVars>>
    /\ UNCHANGED detailVars

\* a consumer thread of an earlier connection finds stop_requested set and
\* returns; no one joins it
K_OldExit(c) ==
    /\ ~ctx[c].freed
    /\ ctx[c].stop_requested
    /\ thr[c].old_consumer = "idle"
    /\ thr' = [thr EXCEPT ![c].old_consumer = "none"]
    /\ UNCHANGED <<g_processor_initialized, g_camera_contexts, g_interrupt_pipe,
                   pipe_bytes, ctx, host, last_call, obs, poolVars>>
    /\ UNCHANGED detailVars

\* thread_exit_cleanup: with a consumer thread, stop_requested is set for it
\* and it is joined (it returns once it is out of frame_cb); then cleanup,
\* report STOPPED, return
C_ExitCleanup(c) ==
    /\ Step(c, "c_exit_cleanup")
    /\ thr[c].consumer # "in_cb"
    /\ ctx' = [ctx EXCEPT
            ![c] = [StatusCtx(@, CAM_STATE_STOPPED)
                        EXCEPT !.stop_requested = @ \/ ctx[c].consumer_thread_id]]
    /\ obs' = [obs EXCEPT ![c] = StatusObs(@, ctx[c], CAM_STATE_STOPPED)]
    /\ thr' = [thr EXCEPT ![c].pc = "done", ![c].consumer = "none"]
    /\ UNCHANGED <<g_processor_initialized, g_camera_contexts, g_interrupt_pipe,
                   pipe_bytes, host, last_call, poolVars>>
    /\ UNCHANGED detailVars

\* the environment: input arrives on descriptor 0 of the process
StdinInput ==
    /\ ~g_interrupt_pipe
    /\ pipe_bytes < MaxStdin
    /\ pipe_bytes' = pipe_bytes + 1
    /\ UNCHANGED <<g_processor_initialized, g_camera_contexts, g_interrupt_pipe,
                   ctx, thr, host, last_call, obs, poolVars>>
    /\ UNCHANGED detailVars

WorkerCsrc(c) ==
    \/ C_Start(c) \/ C_LoopTop(c) \/ C_Hook(c) \/ C_Open(c) \/ C_Pump(c)
    \/ C_Reconnect(c) \/ C_Backoff(c) \/ C_Waiting(c) \/ C_ExitCleanup(c)

ConsumerCsrc(c) == K_Dispatch(c) \/ K_Return(c) \/ K_OldExit(c)

HostApiCsrc(h) ==
    \/ processor_initialize_csrc(h) \/ processor_add_camera_csrc(h)
    \/ processor_stop_camera_csrc(h) \/ processor_shutdown_csrc(h)
    \/ shutdown_join_csrc(h) \/ shutdown_finish_csrc(h)

NextCsrc ==
    \/ HostApiCsrc(ActiveHost)
    \/ \E c \in Ctx : WorkerCsrc(c)
    \/ StdinInput

\* the registry and the workers of the legacy build; the consumer threads stay
\* where pthread_create put them (what they deliver is looked at in
\* SpecConsumer)
SpecCsrc == Init /\ [][NextCsrc]_vars

\* the legacy build with its consumer threads, the host using camera id 1
NextConsumer ==
    \/ HostApiCsrc(ActiveHost) /\ last_call'.id \in {0, 1}
    \/ \E c \in Ctx : WorkerCsrc(c)
    \/ \E c \in Ctx : ConsumerCsrc(c)
    \/ StdinInput

SpecConsumer == Init /\ [][NextConsumer]_vars

\* ------------------------------------------------- the callback pool alone
\* the worker side: callback_pool_initialize, callback_pool_destroy and
\* callback_pool_get_data for a frame
P_Initialize ==
    /\ \E alloc_ok \in BOOLEAN : callback_pool_initialize(alloc_ok)
    /\ UNCHANGED regVars
    /\ UNCHANGED detailVars

P_Destroy ==
    /\ callback_pool_destroy
    /\ UNCHANGED regVars
    /\ UNCHANGED detailVars

P_GetData ==
    /\ \E frame_ok \in BOOLEAN, fill_ok \in BOOLEAN :
            callback_pool_get_data(frame_ok, fill_ok)
    /\ UNCHANGED regVars
    /\ UNCHANGED detailVars

\* the host hands back a descriptor it holds
P_Release ==
    /\ \E i \in DOMAIN held :
        /\ held[i] > 0
        /\ callback_pool_return_data(i)
        /\ held' = [held EXCEPT ![i] = @ - 1]
        /\ stale' = stale \cup {i}
    /\ UNCHANGED <<g_pool_initialized, g_pool_size>>
    /\ UNCHANGED regVars
    /\ UNCHANGED detailVars

\* the host hands back a descriptor it no longer owns: one it has already
\* released and that has not been given out again, or one of a pool that has
\* been destroyed since
P_ReleaseAgain ==
    /\ \E i \in stale :
        /\ callback_pool_return_data(i)
        /\ UNCHANGED <<held, stale>>
    /\ UNCHANGED <<g_pool_initialized, g_pool_size>>
    /\ UNCHANGED regVars
    /\ UNCHANGED detailVars

\* callback_pool_return_data(NULL): returns at once (with the pool not
\* initialised, after the data && test)
P_ReleaseNull ==
    /\ UNCHANGED poolVars
    /\ UNCHANGED regVars
    /\ UNCHANGED detailVars

\* the host hands back a callback_frame_data_t that is no element of
\* g_callback_pool
P_ReleaseForeign ==
    /\ callback_pool_return_data(ForeignIndex)
    /\ UNCHANGED <<g_pool_initialized, g_pool_size, held, stale>>
    /\ UNCHANGED regVars
    /\ UNCHANGED detailVars

NextPool ==
    \/ P_Initialize \/ P_Destroy \/ P_GetData
    \/ P_Release \/ P_ReleaseAgain \/ P_ReleaseNull \/ P_ReleaseForeign

SpecPool == Init /\ [][NextPool]_vars

\* ------------------------- the pool with a host that releases once
\* callback_pool_get_data in its two parts, for the workers w: the pop under
\* g_pool_mutex, then the fill outside it.  The host hands back each
\* descriptor it was given once (P_Release).
\* the locked part: the last free index popped, ref_count = 1
O_Pop(w) ==
    /\ acq[w] = <<>>
    /\ g_pool_initialized /\ g_pool_free_count > 0
    /\ LET i == g_pool_indices[g_pool_free_count] IN
        /\ i \in PoolSlots
        /\ g_pool_free_count' = g_pool_free_count - 1
        /\ pool' = [pool EXCEPT ![i] = [ref_count |-> 1, buf |-> FALSE]]
        /\ acq' = [acq EXCEPT ![w] = <<i>>]
    /\ UNCHANGED <<g_pool_initialized, g_pool_size, g_pool_indices, held, stale,
                   wild_access>>
    /\ UNCHANGED <<regVars, loopVars, paceVars, pumpVars, skipVars, queueVars>>

\* the fill succeeds: the buffer is allocated and copied, the descriptor goes
\* to the caller and from there to frame_cb
O_Filled(w) ==
    /\ acq[w] # <<>>
    /\ LET i == acq[w][1] IN
        /\ pool' = [pool EXCEPT ![i].buf = TRUE]
        /\ held' = [held EXCEPT ![i] = Min(@ + 1, 2)]
        /\ stale' = stale \ {i}
    /\ acq' = [acq EXCEPT ![w] = <<>>]
    /\ UNCHANGED <<g_pool_initialized, g_pool_size, g_pool_free_count,
                   g_pool_indices, wild_access>>
    /\ UNCHANGED <<regVars, loopVars, paceVars, pumpVars, skipVars, queueVars>>

\* the fill fails (invalid plane, invalid buffer size, malloc failure):
\* callback_pool_return_data(cb_data), then NULL
O_FillFailed(w) ==
    /\ acq[w] # <<>>
    /\ callback_pool_return_data(acq[w][1])
    /\ acq' = [acq EXCEPT ![w] = <<>>]
    /\ UNCHANGED <<g_pool_initialized, g_pool_size, held, stale>>
    /\ UNCHANGED <<regVars, loopVars, paceVars, pumpVars, skipVars, queueVars>>

\* callback_pool_initialize by the host before any camera runs
O_Initialize ==
    /\ ~g_pool_initialized
    /\ P_Initialize
    /\ acq' = acq

NextPoolOnce ==
    \/ O_Initialize
    \/ \E w \in Ctx : O_Pop(w) \/ O_Filled(w) \/ O_FillFailed(w)
    \/ P_Release

SpecPoolOnce == Init /\ [][NextPoolOnce]_vars

\* ------------------------------ process_stream: the read and decode loops
\* One worker of the current build from av_read_frame to the end of the
\* receive loop.  What the stream and the decoder return is the environment's
\* choice; the decoder hands out the frames it holds and then EAGAIN.
\* frames a decoder may hold ready
MaxPending == 2
\* frames counted in an input window
MaxInput == 4

ReadResults == {"video", "other", "EAGAIN", "EOF", "error"}
SendResults == {"ok", "EAGAIN", "EOF", "error"}

Ret(op, r) == [op |-> op, ret |-> r]

\* run_camera_loop has connected (allocate_packets_and_frames gives an empty
\* packet, the decoder is new) and calls process_stream
S_Enter ==
    /\ ps_pc \in {"none", "returned_false"}
    /\ ~ps_stop
    /\ ps_pc' = "loop"
    /\ ps_ret' = Ret("none", "none")
    /\ packet_ref' = "none"
    /\ dec_pending' = 0
    /\ frame_input_counter' = 0
    /\ UNCHANGED ps_stop
    /\ UNCHANGED <<regVars, poolVars, loopVars, paceVars, acqVars, skipVars,
                   queueVars>>

\* processor_stop_camera or processor_shutdown sets the flag
S_Stop ==
    /\ ps_pc \in {"loop", "send", "receive"}
    /\ ~ps_stop
    /\ ps_stop' = TRUE
    /\ UNCHANGED <<ps_pc, ps_ret, packet_ref, dec_pending, frame_input_counter>>
    /\ UNCHANGED <<regVars, poolVars, loopVars, paceVars, acqVars, skipVars,
                   queueVars>>

\* the top of the outer loop: the stop check, the stall check, av_read_frame
\* and what is done with its result.  EOF and every error but EAGAIN return
\* false; EAGAIN unrefs the packet and reads again; a packet of another
\* stream is left in ctx->packet and the loop reads again; a packet of the
\* video stream goes on to avcodec_send_packet
S_Read ==
    /\ ps_pc = "loop"
    /\ IF ps_stop
       THEN /\ ps_pc' = "returned_true"
            /\ ps_ret' = Ret("none", "none")
            /\ UNCHANGED packet_ref
       ELSE \E stalled \in BOOLEAN, r \in ReadResults :
            IF stalled
            THEN /\ ps_pc' = "returned_false"
                 /\ ps_ret' = Ret("none", "none")
                 /\ UNCHANGED packet_ref
            ELSE /\ ps_ret' = Ret("read", r)
                 /\ ps_pc' = CASE r \in {"EOF", "error"} -> "returned_false"
                                [] r = "video" -> "send"
                                [] OTHER -> "loop"
                 /\ packet_ref' = CASE r \in {"video", "other"} -> r
                                     [] r = "EAGAIN" -> "none"
                                     [] OTHER -> packet_ref
    /\ UNCHANGED <<ps_stop, dec_pending, frame_input_counter>>
    /\ UNCHANGED <<regVars, poolVars, loopVars, paceVars, acqVars, skipVars,
                   queueVars>>

\* a send that keeps the packet when the decoder did not take it
S_Send_keeps_refused_packet ==
    /\ ps_pc = "send"
    /\ \E r \in SendResults, made \in 0..MaxPending :
        /\ ps_ret' = Ret("send", r)
        /\ dec_pending' = IF r = "ok" THEN Min(dec_pending + made, MaxPending)
                          ELSE dec_pending
        /\ packet_ref' = IF r = "ok" THEN "none" ELSE packet_ref
    /\ ps_pc' = "receive"
    /\ UNCHANGED <<ps_stop, frame_input_counter>>
    /\ UNCHANGED <<regVars, poolVars, loopVars, paceVars, acqVars, skipVars,
                   queueVars>>

\* avcodec_send_packet, then av_packet_unref whatever it returned; an error
\* is logged and the receive loop entered all the same.  A packet the decoder
\* took may complete frames
S_Send ==
    /\ ps_pc = "send"
    /\ \E r \in SendResults, made \in 0..MaxPending :
        /\ ps_ret' = Ret("send", r)
        /\ dec_pending' = IF r = "ok" THEN Min(dec_pending + made, MaxPending)
                          ELSE dec_pending
    /\ packet_ref' = "none"
    /\ ps_pc' = "receive"
    /\ UNCHANGED <<ps_stop, frame_input_counter>>
    /\ UNCHANGED <<regVars, poolVars, loopVars, paceVars, acqVars, skipVars,
                   queueVars>>

\* one turn of the receive loop: the stop check, avcodec_receive_frame.
\* EAGAIN or EOF leaves the loop for the next read, an error goes to
\* process_stream_error, a frame is skipped or dispatched (a failed dispatch
\* goes to process_stream_error too) and the loop turns again.  Each frame
\* is counted in frame_input_counter, put back to 0 at the end of a window
S_Receive ==
    /\ ps_pc = "receive"
    /\ IF ps_stop
       THEN /\ ps_pc' = "returned_true"
            /\ ps_ret' = Ret("none", "none")
            /\ UNCHANGED <<dec_pending, frame_input_counter>>
       ELSE IF dec_pending = 0
       THEN \E r \in {"EAGAIN", "EOF", "error"} :
            /\ ps_ret' = Ret("receive", r)
            /\ ps_pc' = IF r = "error" THEN "returned_false" ELSE "loop"
            /\ UNCHANGED <<dec_pending, frame_input_counter>>
       ELSE \E r \in {"frame", "error"}, callback_ok \in BOOLEAN,
               window_over \in BOOLEAN :
            /\ ps_ret' = Ret("receive", r)
            /\ dec_pending' = IF r = "frame" THEN dec_pending - 1 ELSE dec_pending
            /\ frame_input_counter' =
                    CASE r = "error" -> frame_input_counter
                      [] window_over \/ frame_input_counter = MaxInput -> 0
                      [] OTHER -> frame_input_counter + 1
            /\ ps_pc' = IF r = "error" \/ ~callback_ok THEN "returned_false"
                        ELSE "receive"
    /\ UNCHANGED <<ps_stop, packet_ref>>
    /\ UNCHANGED <<regVars, poolVars, loopVars, paceVars, acqVars, skipVars,
                   queueVars>>

NextPump == S_Enter \/ S_Stop \/ S_Read \/ S_Send \/ S_Receive

SpecPump == Init /\ [][NextPump]_vars

\* --------------------------- the source rate estimate and the frame skip
\* One worker of the current build through setup_video_decoder, the input
\* rate windows of process_stream and the choice for frames without a PTS.
\* Rates are counted in 1/FpsUnit FPS; frame_skip_ratio and
\* frame_skip_accumulator, quotients by target_fps, in 1/(FpsUnit*target_fps)
FpsUnit == 2
\* the accumulator is followed up to this many frames
MaxAccFrames == 6

\* 1.0 as a frame_skip_ratio
SkipOne == FpsUnit * target_fps

\* what av_guess_frame_rate may give: nothing, and rates around 4, 5 and 65
GuessedRates ==
    {0, 4 * FpsUnit, 4 * FpsUnit + 1, 5 * FpsUnit, 65 * FpsUnit - 1,
     65 * FpsUnit, 65 * FpsUnit + 1}

\* what a window may measure: rates below, at and above the target rates, and
\* rates up to 1.0 and more than 1.0 away from the initial estimates
MeasuredRates ==
    {FpsUnit, 5 * FpsUnit + 1, 6 * FpsUnit, 6 * FpsUnit + 1,
     29 * FpsUnit, 31 * FpsUnit + 1}

\* an initial estimate that takes the guessed rate from 5 to 65, both included
initial_source_fps_from_5_to_65(g) ==
    IF g >= 5 * FpsUnit /\ g <= 65 * FpsUnit THEN g ELSE 30 * FpsUnit

\* the initial estimate: detected_fps_from_metadata > 4.0 && < 65.0, else 30.0
initial_source_fps(g) ==
    IF g > 4 * FpsUnit /\ g < 65 * FpsUnit THEN g ELSE 30 * FpsUnit

\* a window whose measurement is always adopted
adopts_measurement_always(m) == TRUE

\* !has_real_fps_measurement || fabs(calculated - estimated) > 1.0
adopts_measurement(m) ==
    ~has_real_fps_measurement \/ Abs(m - estimated_source_fps) > FpsUnit

\* processor_add_camera: the context is zeroed, target_fps is the value
\* asked for or 1 when that is not positive, frame_skip_count = 1
F_AddCamera ==
    /\ fps_op = "none"
    /\ \E asked \in {0, 2, MaxTarget} :
        target_fps' = IF asked <= 0 THEN 1 ELSE asked
    /\ frame_skip_count' = 1
    /\ fps_op' = "added"
    /\ UNCHANGED <<detected_fps, calculated_input_fps, estimated_source_fps,
                   has_real_fps_measurement, frame_skip_ratio,
                   frame_skip_accumulator, skip_sent>>
    /\ UNCHANGED <<regVars, poolVars, loopVars, paceVars, acqVars, pumpVars,
                   queueVars>>

\* setup_video_decoder on each connection: the initial estimate and the
\* initial skip ratio
F_Setup ==
    /\ fps_op \in {"added", "setup", "window", "frame"}
    /\ \E g \in GuessedRates :
        /\ detected_fps' = g
        /\ estimated_source_fps' = initial_source_fps(g)
        /\ IF target_fps <= 0 \/ initial_source_fps(g) <= 0
              \/ target_fps * FpsUnit >= initial_source_fps(g)
           THEN frame_skip_ratio' = SkipOne /\ frame_skip_count' = 1
           ELSE /\ frame_skip_ratio' = initial_source_fps(g)
                /\ frame_skip_count' = initial_source_fps(g) \div SkipOne
    /\ fps_op' = "setup"
    /\ calculated_input_fps' = 0
    /\ frame_skip_accumulator' = 0
    /\ has_real_fps_measurement' = FALSE
    /\ skip_sent' = FALSE
    /\ UNCHANGED target_fps
    /\ UNCHANGED <<regVars, poolVars, loopVars, paceVars, acqVars, pumpVars,
                   queueVars>>

\* the end of an input window (elapsed_s_input >= FPS_CALC_INTERVAL_S): the
\* measured rate, adopted or not, and the skip ratio recomputed or not
F_Window ==
    /\ fps_op \in {"setup", "window", "frame"}
    /\ \E m \in MeasuredRates :
        /\ calculated_input_fps' = m
        /\ IF adopts_measurement(m)
           THEN /\ estimated_source_fps' = m
                /\ has_real_fps_measurement' = TRUE
                /\ IF target_fps > 0 /\ m > target_fps * FpsUnit
                   THEN /\ frame_skip_ratio' = m
                        /\ frame_skip_count' = m \div SkipOne
                   ELSE UNCHANGED <<frame_skip_ratio, frame_skip_count>>
           ELSE UNCHANGED <<estimated_source_fps, has_real_fps_measurement,
                            frame_skip_ratio, frame_skip_count>>
    /\ fps_op' = "window"
    /\ UNCHANGED <<target_fps, detected_fps, frame_skip_accumulator, skip_sent>>
    /\ UNCHANGED <<regVars, poolVars, loopVars, paceVars, acqVars, pumpVars,
                   queueVars>>

\* a decoded frame whose PTS is AV_NOPTS_VALUE: the accumulator and the choice
F_FrameNoPts ==
    /\ fps_op \in {"setup", "window", "frame"}
    /\ frame_skip_accumulator + SkipOne <= MaxAccFrames * SkipOne
    /\ LET accumulated == frame_skip_accumulator + SkipOne IN
        IF frame_skip_ratio <= SkipOne
        THEN /\ skip_sent' = TRUE
             /\ frame_skip_accumulator' = accumulated
        ELSE IF accumulated >= frame_skip_ratio
        THEN /\ skip_sent' = TRUE
             /\ frame_skip_accumulator' = accumulated - frame_skip_ratio
        ELSE /\ skip_sent' = FALSE
             /\ frame_skip_accumulator' = accumulated
    /\ fps_op' = "frame"
    /\ UNCHANGED <<target_fps, detected_fps, calculated_input_fps,
                   estimated_source_fps, has_real_fps_measurement,
                   frame_skip_ratio, frame_skip_count>>
    /\ UNCHANGED <<regVars, poolVars, loopVars, paceVars, acqVars, pumpVars,
                   queueVars>>

NextSkip == F_AddCamera \/ F_Setup \/ F_Window \/ F_FrameNoPts

SpecSkip == Init /\ [][NextSkip]_vars

\* ------------------------------------------------ the decoded-frame queue
\* frame_queue_push by one producer and frame_queue_pop by the consumers.
\* What a call does while it holds queue->mutex is one step; a call blocked in
\* pthread_cond_timedwait is woken (by a signal or spuriously) or times out.
\* a timeout that returns false without counting the frame
Q_PushTimeout_uncounted ==
    /\ q_push.pc = "waiting"
    /\ q_push' = [pc |-> "idle", frame |-> 0]
    /\ UNCHANGED <<q_frames, q_head, q_tail, q_size, frames_pushed,
                   frames_popped, frames_dropped, q_stop, q_pop, produced,
                   last_popped>>
    /\ UNCHANGED <<regVars, poolVars, loopVars, paceVars, acqVars, pumpVars,
                   skipVars>>

\* frame_queue_push from its lock, or from a wake-up in its wait loop: it
\* waits while the queue is full and no stop is requested; it returns false
\* on a stop and when the copy of the frame cannot be made; otherwise the copy
\* goes to the tail
Q_Push ==
    /\ \/ q_push.pc = "waiting"
       \/ q_push.pc = "idle" /\ produced < MaxFrames
    /\ LET frame == IF q_push.pc = "idle" THEN produced + 1 ELSE q_push.frame IN
        /\ produced' = IF q_push.pc = "idle" THEN produced + 1 ELSE produced
        /\ IF q_size >= QueueCapacity /\ ~q_stop
           THEN /\ q_push' = [pc |-> "waiting", frame |-> frame]
                /\ UNCHANGED <<q_frames, q_tail, q_size, frames_pushed>>
           ELSE /\ q_push' = [pc |-> "idle", frame |-> 0]
                /\ \E copy_ok \in BOOLEAN :
                    IF q_stop \/ ~copy_ok
                    THEN UNCHANGED <<q_frames, q_tail, q_size, frames_pushed>>
                    ELSE /\ q_frames' = [q_frames EXCEPT ![q_tail] = frame]
                         /\ q_tail' = (q_tail + 1) % QueueCapacity
                         /\ q_size' = q_size + 1
                         /\ frames_pushed' = frames_pushed + 1
    /\ UNCHANGED <<q_head, frames_popped, frames_dropped, q_stop, q_pop,
                   last_popped>>
    /\ UNCHANGED <<regVars, poolVars, loopVars, paceVars, acqVars, pumpVars,
                   skipVars>>

\* pthread_cond_timedwait returns ETIMEDOUT after PUSH_TIMEOUT_MS: the frame
\* is counted in frames_dropped and false returned
Q_PushTimeout ==
    /\ q_push.pc = "waiting"
    /\ frames_dropped' = frames_dropped + 1
    /\ q_push' = [pc |-> "idle", frame |-> 0]
    /\ UNCHANGED <<q_frames, q_head, q_tail, q_size, frames_pushed,
                   frames_popped, q_stop, q_pop, produced, last_popped>>
    /\ UNCHANGED <<regVars, poolVars, loopVars, paceVars, acqVars, pumpVars,
                   skipVars>>

\* frame_queue_pop from its lock, or from a wake-up in its wait loop: it
\* waits while the queue is empty and no stop is requested, returns NULL on a
\* stop, and otherwise takes the frame at the head
Q_Pop(k) ==
    /\ IF q_size = 0 /\ ~q_stop
       THEN /\ q_pop' = [q_pop EXCEPT ![k] = "waiting"]
            /\ UNCHANGED <<q_frames, q_head, q_size, frames_popped, last_popped>>
       ELSE /\ q_pop' = [q_pop EXCEPT ![k] = "idle"]
            /\ IF q_stop \/ q_size = 0
               THEN UNCHANGED <<q_frames, q_head, q_size, frames_popped,
                                last_popped>>
               ELSE /\ last_popped' = q_frames[q_head]
                    /\ q_frames' = [q_frames EXCEPT ![q_head] = 0]
                    /\ q_head' = (q_head + 1) % QueueCapacity
                    /\ q_size' = q_size - 1
                    /\ frames_popped' = frames_popped + 1
    /\ UNCHANGED <<q_tail, frames_pushed, frames_dropped, q_stop, q_push, produced>>
    /\ UNCHANGED <<regVars, poolVars, loopVars, paceVars, acqVars, pumpVars,
                   skipVars>>

\* pthread_cond_timedwait returns ETIMEDOUT after POP_TIMEOUT_MS: NULL
Q_PopTimeout(k) ==
    /\ q_pop[k] = "waiting"
    /\ q_pop' = [q_pop EXCEPT ![k] = "idle"]
    /\ UNCHANGED <<q_frames, q_head, q_tail, q_size, frames_pushed,
                   frames_popped, frames_dropped, q_stop, q_push, produced,
                   last_popped>>
    /\ UNCHANGED <<regVars, poolVars, loopVars, paceVars, acqVars, pumpVars,
                   skipVars>>

\* the flag the callers pass is set
Q_Stop ==
    /\ ~q_stop
    /\ q_stop' = TRUE
    /\ UNCHANGED <<q_frames, q_head, q_tail, q_size, frames_pushed,
                   frames_popped, frames_dropped, q_push, q_pop, produced,
                   last_popped>>
    /\ UNCHANGED <<regVars, poolVars, loopVars, paceVars, acqVars, pumpVars,
                   skipVars>>

NextQueue ==
    \/ Q_Push \/ Q_PushTimeout \/ Q_Stop
    \/ \E k \in 1..MaxConsumers : Q_Pop(k) \/ Q_PopTimeout(k)

SpecQueue == Init /\ [][NextQueue]_vars

\* ------------------------------------- the worker inside g_pool_mutex
\* The current build with a host that keeps the descriptors frame_cb is given
\* and hands them back later, and with the locked part of
\* callback_pool_get_data as a place of its own when the pool is empty: the
\* worker then writes a warning through log_message while it holds
\* g_pool_mutex.
\* convert_and_dispatch_frame with a free slot: the descriptor is filled and
\* frame_cb returns without handing it back
W_DispatchKept(c) ==
    /\ Step(c, "pump")
    /\ ~ctx[c].stop_requested
    /\ ctx[c].frame_cb
    /\ g_pool_initialized /\ g_pool_free_count > 0
    /\ ~PoolMutexHeld
    /\ callback_pool_get_data(TRUE, TRUE)
    /\ UNCHANGED regVars
    /\ UNCHANGED detailVars

\* callback_pool_get_data with no free slot: g_pool_mutex taken, and
\* log_message called with it held
W_PoolEmpty(c) ==
    /\ Step(c, "pump")
    /\ ~ctx[c].stop_requested
    /\ ctx[c].frame_cb
    /\ g_pool_initialized /\ g_pool_free_count = 0
    /\ ~PoolMutexHeld
    /\ Goto(c, "pool_empty_log")
    /\ UNCHANGED <<g_processor_initialized, g_camera_contexts, g_interrupt_pipe,
                   pipe_bytes, ctx, host, last_call, obs, poolVars>>
    /\ UNCHANGED detailVars

\* the warning is written, the mutex unlocked and NULL returned
W_PoolEmptyLogged(c) ==
    /\ Step(c, "pool_empty_log")
    /\ Goto(c, "cb_data_null")
    /\ UNCHANGED <<g_processor_initialized, g_camera_contexts, g_interrupt_pipe,
                   pipe_bytes, ctx, host, last_call, obs, poolVars>>
    /\ UNCHANGED detailVars

\* the host hands back a descriptor it kept: callback_pool_return_data takes
\* g_pool_mutex when the pool is initialised
HostRelease ==
    /\ g_pool_initialized => ~PoolMutexHeld
    /\ P_Release

\* the host starts cameras and shuts the processor down; the worker is the
\* one of Spec between its connection and its end
NextMutex ==
    \/ /\ \/ processor_initialize(ActiveHost)
          \/ processor_add_camera(ActiveHost)
          \/ processor_shutdown(ActiveHost)
       /\ last_call'.id \in {0, 1}
    \/ shutdown_tryjoin(ActiveHost) \/ shutdown_cancel_join(ActiveHost)
    \/ shutdown_finish(ActiveHost)
    \/ \E c \in Ctx :
        \/ W_LoopTop(c) \/ W_Open(c) \/ W_Pump(c) \/ W_PacingWake(c)
        \/ W_CbDataNull(c) \/ W_Reconnect(c) \/ W_Backoff(c) \/ W_Waiting(c)
        \/ W_ExitCleanup(c) \/ W_Cancelled(c)
        \/ W_DispatchKept(c) \/ W_PoolEmpty(c) \/ W_PoolEmptyLogged(c)
    \/ HostRelease

SpecMutex == Init /\ [][NextMutex]_vars

\* -------------------------------------- run_camera_loop followed in detail
\* One worker of the current build with its counters and its waits.  The
\* registry is left out: the thread is created, and the host's
\* processor_stop_camera sets its stop flag at any moment.
RECONNECT_DELAY_BASE == 2
MIN_RECONNECT_DELAY == 1
MAX_RECONNECT_DELAY == 30
\* nanosleep of 100 ms in the reconnect wait, against time() in whole seconds
NapsPerSecond == 10
\* reconnect cycles and open retries followed before the model stops counting
MaxAttempts == 16
MaxRetries == 6

\* the errors of avformat_open_input the retry loop tells apart
RetryableErrors == {"AVERROR_EXIT", "AVERROR_EIO", "AVERROR_ENETUNREACH"}
OpenResults == {"ok", "other_error"} \cup RetryableErrors

\* wait_seconds = (retry_count <= 5) ? retry_count : 5
retry_wait_seconds(n) == IF n <= 5 THEN n ELSE 5

\* delay_seconds = RECONNECT_DELAY_BASE * reconnect_attempts, clamped
reconnect_delay(attempts) ==
    LET d == RECONNECT_DELAY_BASE * attempts
    IN  IF d < MIN_RECONNECT_DELAY THEN MIN_RECONNECT_DELAY
        ELSE IF d > MAX_RECONNECT_DELAY THEN MAX_RECONNECT_DELAY
        ELSE d

\* difftime(time(NULL), start_wait_time) after n naps: both readings are whole
\* seconds, and the wait started phase tenths into its second
wait_elapsed(phase, n) == (phase + n) \div NapsPerSecond

\* check_processing_stall(camera_id, 30): false at once when the camera has no
\* logger or its logger does not track performance
check_processing_stall ==
    /\ performance_tracking_enabled
    /\ activity_overdue \/ frame_overdue

\* pthread_create in processor_add_camera, then the head of run_camera_loop:
\* logger_init(log_filename, 100, true), which leaves performance tracking off
\* when the log file cannot be opened, and ctx->state = CONNECTING
R_Start ==
    /\ run_pc = "none"
    /\ \E fopen_ok \in BOOLEAN : performance_tracking_enabled' = fopen_ok
    /\ run_state' = CAM_STATE_CONNECTING
    /\ run_pc' = "loop_top"
    /\ UNCHANGED <<run_stop, reconnect_attempts, open_ret, retry_count,
                   wait_seconds, delay_seconds, start_phase, naps,
                   activity_overdue, frame_overdue>>
    /\ UNCHANGED <<regVars, poolVars, paceVars, extraVars>>

\* processor_stop_camera: context->stop_requested = true
R_Stop ==
    /\ run_pc \notin {"none", "done"}
    /\ ~run_stop
    /\ run_stop' = TRUE
    /\ UNCHANGED <<run_pc, run_state, reconnect_attempts, open_ret, retry_count,
                   wait_seconds, delay_seconds, start_phase, naps,
                   performance_tracking_enabled, activity_overdue, frame_overdue>>
    /\ UNCHANGED <<regVars, poolVars, paceVars, extraVars>>

\* top of the loop: stop check, report CONNECTING, enter
\* initialize_ffmpeg_connection with retry_count = 0
R_LoopTop ==
    /\ run_pc = "loop_top"
    /\ IF run_stop
       THEN run_pc' = "exit_cleanup" /\ UNCHANGED <<run_state, retry_count>>
       ELSE /\ run_state' = CAM_STATE_CONNECTING
            /\ retry_count' = 0
            /\ run_pc' = "open"
    /\ UNCHANGED <<run_stop, reconnect_attempts, open_ret, wait_seconds,
                   delay_seconds, start_phase, naps,
                   performance_tracking_enabled, activity_overdue, frame_overdue>>
    /\ UNCHANGED <<regVars, poolVars, paceVars, extraVars>>

\* one avformat_open_input of the retry loop and what follows its result.
\* ret == 0: the decoder is set up (that may fail: reconnect), then
\* reconnect_attempts = 0 and CONNECTED is reported.  A retryable error:
\* retry_count++, wait_seconds computed, nanosleep.  Another error: the loop
\* is left and the function returns false (its locals are gone: 0 here).  Time
\* has passed since the last frame of the previous connection
R_Open ==
    /\ run_pc = "open"
    /\ \E ret \in OpenResults, setup_ok \in BOOLEAN, late \in BOOLEAN :
        /\ ret \in RetryableErrors => retry_count < MaxRetries
        /\ open_ret' = ret
        /\ frame_overdue' = (frame_overdue \/ late)
        /\ CASE ret = "ok" /\ setup_ok ->
                    /\ reconnect_attempts' = 0
                    /\ run_state' = CAM_STATE_CONNECTED
                    /\ run_pc' = "connected"
                    /\ activity_overdue' = FALSE
                    /\ retry_count' = 0 /\ wait_seconds' = 0
             [] ret = "ok" /\ ~setup_ok ->
                    /\ run_pc' = "reconnect"
                    /\ retry_count' = 0 /\ wait_seconds' = 0
                    /\ UNCHANGED <<reconnect_attempts, run_state, activity_overdue>>
             [] ret \in RetryableErrors ->
                    /\ retry_count' = retry_count + 1
                    /\ wait_seconds' = retry_wait_seconds(retry_count + 1)
                    /\ run_pc' = "retry_sleep"
                    /\ UNCHANGED <<reconnect_attempts, run_state, activity_overdue>>
             [] OTHER ->
                    /\ run_pc' = "reconnect"
                    /\ retry_count' = 0 /\ wait_seconds' = 0
                    /\ UNCHANGED <<reconnect_attempts, run_state, activity_overdue>>
    /\ UNCHANGED <<run_stop, delay_seconds, start_phase, naps,
                   performance_tracking_enabled>>
    /\ UNCHANGED <<regVars, poolVars, paceVars, extraVars>>

\* a retry sleep that goes back to the open whatever stop_requested holds
R_RetryWake_opens_again ==
    /\ run_pc = "retry_sleep"
    /\ run_pc' = "open"
    /\ UNCHANGED <<run_stop, run_state, reconnect_attempts, open_ret, retry_count,
                   wait_seconds, delay_seconds, start_phase, naps,
                   performance_tracking_enabled, activity_overdue, frame_overdue>>
    /\ UNCHANGED <<regVars, poolVars, paceVars, extraVars>>

\* nanosleep(wait_seconds) returns: with stop_requested set the function
\* returns false (handle_reconnect), otherwise the loop opens again
R_RetryWake ==
    /\ run_pc = "retry_sleep"
    /\ IF run_stop
       THEN run_pc' = "reconnect" /\ retry_count' = 0 /\ wait_seconds' = 0
       ELSE run_pc' = "open" /\ UNCHANGED <<retry_count, wait_seconds>>
    /\ UNCHANGED <<run_stop, run_state, reconnect_attempts, open_ret,
                   delay_seconds, start_phase, naps,
                   performance_tracking_enabled, activity_overdue, frame_overdue>>
    /\ UNCHANGED <<regVars, poolVars, paceVars, extraVars>>

\* after CONNECTED: stop check, LOG_HEARTBEAT, process_stream entered
R_Connected ==
    /\ run_pc = "connected"
    /\ run_pc' = IF run_stop THEN "exit_cleanup" ELSE "pump"
    /\ open_ret' = "none"
    /\ UNCHANGED <<run_stop, run_state, reconnect_attempts, retry_count,
                   wait_seconds, delay_seconds, start_phase, naps,
                   performance_tracking_enabled, activity_overdue, frame_overdue>>
    /\ UNCHANGED <<regVars, poolVars, paceVars, extraVars>>

\* process_stream, one turn of its loop: stop check (return true), then
\* check_processing_stall (log "stall_recovery", return false), then
\* av_read_frame, whose return is logged as activity.  A decoded frame is
\* logged as "frame" and then dispatched, which may take the host long (late);
\* the dispatch is logged as activity again.  A turn without a frame leaves
\* the time of the last frame where it was; a read error or EOF returns
\* false.  Activity is logged last thing before the next check, so it is
\* overdue there only when the thread was held up in between
R_Pump ==
    /\ run_pc = "pump"
    /\ IF run_stop
       THEN run_pc' = "exit_cleanup" /\ UNCHANGED <<activity_overdue, frame_overdue>>
       ELSE IF check_processing_stall
       THEN /\ run_pc' = "reconnect"
            /\ activity_overdue' = FALSE
            /\ UNCHANGED frame_overdue
       ELSE \E outcome \in {"frame", "no_frame", "error"},
               late \in BOOLEAN, held_up \in BOOLEAN :
            CASE outcome = "frame" ->
                    /\ activity_overdue' = held_up
                    /\ frame_overdue' = (late \/ held_up)
                    /\ run_pc' = "pump"
              [] outcome = "no_frame" ->
                    /\ activity_overdue' = held_up
                    /\ frame_overdue' = (frame_overdue \/ late \/ held_up)
                    /\ run_pc' = "pump"
              [] OTHER ->
                    /\ activity_overdue' = FALSE
                    /\ frame_overdue' = (frame_overdue \/ late)
                    /\ run_pc' = "reconnect"
    /\ UNCHANGED <<run_stop, run_state, reconnect_attempts, open_ret, retry_count,
                   wait_seconds, delay_seconds, start_phase, naps,
                   performance_tracking_enabled>>
    /\ UNCHANGED <<regVars, poolVars, paceVars, extraVars>>

\* handle_reconnect: cleanup, stop check, report DISCONNECTED
R_Reconnect ==
    /\ run_pc = "reconnect"
    /\ IF run_stop
       THEN run_pc' = "exit_cleanup" /\ UNCHANGED run_state
       ELSE run_state' = CAM_STATE_DISCONNECTED /\ run_pc' = "backoff"
    /\ open_ret' = "none"
    /\ UNCHANGED <<run_stop, reconnect_attempts, retry_count,
                   wait_seconds, delay_seconds, start_phase, naps,
                   performance_tracking_enabled, activity_overdue, frame_overdue>>
    /\ UNCHANGED <<regVars, poolVars, paceVars, extraVars>>

\* stop check, reconnect_attempts++, delay_seconds computed and announced with
\* WAITING_RECONNECT, start_wait_time = time(NULL) read at some point of the
\* running second
R_Backoff ==
    /\ run_pc = "backoff"
    /\ IF run_stop
       THEN /\ run_pc' = "exit_cleanup"
            /\ UNCHANGED <<run_state, reconnect_attempts, delay_seconds,
                           start_phase, naps>>
       ELSE /\ reconnect_attempts < MaxAttempts
            /\ reconnect_attempts' = reconnect_attempts + 1
            /\ delay_seconds' = reconnect_delay(reconnect_attempts + 1)
            /\ run_state' = CAM_STATE_WAITING_RECONNECT
            /\ \E phase \in 0..(NapsPerSecond - 1) : start_phase' = phase
            /\ naps' = 0
            /\ run_pc' = "waiting"
    /\ UNCHANGED <<run_stop, open_ret, retry_count, wait_seconds,
                   performance_tracking_enabled, activity_overdue, frame_overdue>>
    /\ UNCHANGED <<regVars, poolVars, paceVars, extraVars>>

\* the wait loop: while difftime(time(NULL), start_wait_time) < delay_seconds,
\* stop check and a nap of 100 ms; after it, stop check and RECONNECTING.
\* The locals of the wait are gone (0 here) once it is left
R_Waiting ==
    /\ run_pc = "waiting"
    /\ IF run_stop
       THEN /\ run_pc' = "exit_cleanup"
            /\ delay_seconds' = 0 /\ start_phase' = 0 /\ naps' = 0
            /\ UNCHANGED run_state
       ELSE IF wait_elapsed(start_phase, naps) < delay_seconds
       THEN /\ naps' = naps + 1
            /\ UNCHANGED <<run_pc, run_state, delay_seconds, start_phase>>
       ELSE /\ run_state' = CAM_STATE_RECONNECTING
            /\ run_pc' = "loop_top"
            /\ delay_seconds' = 0 /\ start_phase' = 0 /\ naps' = 0
    /\ UNCHANGED <<run_stop, reconnect_attempts, open_ret, retry_count,
                   wait_seconds,
                   performance_tracking_enabled, activity_overdue, frame_overdue>>
    /\ UNCHANGED <<regVars, poolVars, paceVars, extraVars>>

\* thread_exit_cleanup: report STOPPED, return
R_ExitCleanup ==
    /\ run_pc = "exit_cleanup"
    /\ run_state' = CAM_STATE_STOPPED
    /\ run_pc' = "done"
    /\ UNCHANGED <<run_stop, reconnect_attempts, open_ret, retry_count,
                   wait_seconds, delay_seconds, start_phase, naps,
                   performance_tracking_enabled, activity_overdue, frame_overdue>>
    /\ UNCHANGED <<regVars, poolVars, paceVars, extraVars>>

NextLoop ==
    \/ R_Start \/ R_Stop \/ R_LoopTop \/ R_Open \/ R_RetryWake \/ R_Connected
    \/ R_Pump \/ R_Reconnect \/ R_Backoff \/ R_Waiting \/ R_ExitCleanup

SpecLoop == Init /\ [][NextLoop]_vars

\* ------------------------------------ process_stream: frame choice and pacing
\* What process_stream does with each decoded frame that carries a PTS.  Time
\* and PTS are counted in ticks of TickMs milliseconds (pts_time_base is one
\* tick), the worker is connected by setup_video_decoder, and frames arrive dt
\* ticks after the frame before them was handled.
AV_NOPTS_VALUE == 0 - 1
pts_jump_reset_threshold_ms == 1000
early_sleep_threshold_ms == 50
\* resolution of the clock and of the PTS, in milliseconds
TickMs == 250
\* ctx->target_fps of the camera followed
TargetFps == 2
\* the PTS values fed, the size of a jump (above the reset threshold), and the
\* ages and idle times counted
MaxPts == 14
JumpSize == 5
MaxAge == 16
MaxIdle == 7

\* a frame choice that sends every frame
should_send_every_frame(current_pts) == TRUE

\* should_send for a frame with a PTS: the first frame of the connection, or
\* pts_diff = (current_pts - last_sent_pts) * pts_time_base >= 1 / target_fps
should_send(current_pts) ==
    \/ first_pts = AV_NOPTS_VALUE
    \/ last_sent_pts = AV_NOPTS_VALUE
    \/ (current_pts - last_sent_pts) * TickMs * TargetFps >= 1000

\* fabs(pts_sec - last_sec) > pts_jump_reset_threshold_sec, looked at only
\* when a frame has been sent before
pts_jump(pts_sec) ==
    /\ last_sent_pts # AV_NOPTS_VALUE
    /\ Abs(pts_sec - last_sent_pts_sec) * TickMs > pts_jump_reset_threshold_ms

\* clock_nanosleep to target_ts when lateness_sec < -early_sleep_threshold_sec:
\* the ticks slept
early_sleep(lateness) ==
    IF lateness * TickMs < 0 - early_sleep_threshold_ms THEN 0 - lateness ELSE 0

\* the PTS the stream may carry after a frame with PTS p: the next tick, or a
\* jump forwards or backwards
NextPts(p) ==
    IF p = AV_NOPTS_VALUE THEN {0, JumpSize}
    ELSE {q \in {p + 1, p + JumpSize, p - JumpSize} : q \in 0..MaxPts}

\* setup_video_decoder on a connect, and run_camera_loop after it
Y_Setup ==
    /\ pace_pc \in {"none", "reconnect"}
    /\ pace_pc' = "pump"
    /\ first_pts' = AV_NOPTS_VALUE
    /\ last_sent_pts' = AV_NOPTS_VALUE
    /\ last_sent_pts_sec' = 0
    /\ anchor_age' = 0
    /\ decoded' = [pts |-> AV_NOPTS_VALUE, sent |-> FALSE]
    /\ slept' = 0
    /\ since_sent' = 0
    /\ UNCHANGED <<regVars, poolVars, loopVars, extraVars>>

\* process_stream with one decoded frame: the choice, and for a frame to send
\* the anchor (set with the first frame, reset on a PTS jump), the sleep to
\* the frame's target time, last_sent_pts_sec, convert_and_dispatch_frame and,
\* when that succeeded, last_sent_pts; when it failed the stream is given up
Y_Frame ==
    /\ pace_pc = "pump"
    /\ \E current_pts \in NextPts(decoded.pts), dt \in {0, 1}, callback_ok \in BOOLEAN :
        LET now_age == anchor_age + dt
            first1 == IF first_pts = AV_NOPTS_VALUE THEN current_pts ELSE first_pts
            age1 == IF first_pts = AV_NOPTS_VALUE THEN 0 ELSE now_age
            reset == pts_jump(current_pts - first1)
            first2 == IF reset THEN current_pts ELSE first1
            age2 == IF reset THEN 0 ELSE age1
            pts_sec == IF reset THEN 0 ELSE current_pts - first1
            sleep == early_sleep(age2 - pts_sec)
        IN  IF ~should_send(current_pts)
            THEN /\ now_age <= MaxAge
                 /\ anchor_age' = now_age
                 /\ decoded' = [pts |-> current_pts, sent |-> FALSE]
                 /\ slept' = 0
                 /\ since_sent' = Min(since_sent + dt, MaxIdle)
                 /\ UNCHANGED <<pace_pc, first_pts, last_sent_pts, last_sent_pts_sec>>
            ELSE /\ age2 + sleep <= MaxAge
                 /\ first_pts' = first2
                 /\ anchor_age' = age2 + sleep
                 /\ last_sent_pts_sec' = pts_sec
                 /\ slept' = sleep
                 /\ IF callback_ok
                    THEN /\ last_sent_pts' = current_pts
                         /\ decoded' = [pts |-> current_pts, sent |-> TRUE]
                         /\ since_sent' = 0
                         /\ UNCHANGED pace_pc
                    ELSE /\ pace_pc' = "reconnect"
                         /\ decoded' = [pts |-> current_pts, sent |-> FALSE]
                         /\ since_sent' = Min(since_sent + dt + sleep, MaxIdle)
                         /\ UNCHANGED last_sent_pts
    /\ UNCHANGED <<regVars, poolVars, loopVars, extraVars>>

NextPacing == Y_Setup \/ Y_Frame

SpecPacing == Init /\ [][NextPacing]_vars

\* ------------------------------------------------ properties of Spec
\* C2: a context is destroyed only after its worker has exited: no worker
\* thread is still running on a context that stop_camera or shutdown has freed
C2_ContextOutlivesWorker ==
    \A c \in Ctx : ctx[c].freed => ~Running(c)

C4_OtherCameraUndisturbed ==
    [][\A c \in Ctx :
        (/\ thr[c].pc = "hook_read" /\ thr[c].ret_pc = "pump"
         /\ ~ctx[c].freed /\ ~ctx[c].stop_requested
         /\ thr'[c].pc # "hook_read")
        => thr'[c].pc = "pump"]_vars

\* C5: the interrupt hook never blocks: no worker sits in the hook's read()
\* on the open pipe with no byte to read
C5_HookNeverBlocks ==
    \A c \in Ctx :
        (thr[c].pc = "hook_read" /\ g_interrupt_pipe) => pipe_bytes > 0

\* C6: a worker asked to stop ends having reported Stopped exactly once, and
\* nothing after it
C6_StoppedExactlyOnce ==
    \A c \in Ctx :
        (Terminated(c) /\ ~ctx[c].freed /\ ctx[c].status_cb /\ obs[c].own_stop)
        => (obs[c].stopped_n = 1 /\ ~obs[c].after_stopped)

\* the pairs of consecutive reported states the specification allows
\* (any state -> Stopped apart)
StatusPairsStated ==
    {<<CAM_STATE_CONNECTING, CAM_STATE_CONNECTED>>,
     <<CAM_STATE_CONNECTING, CAM_STATE_DISCONNECTED>>,
     <<CAM_STATE_CONNECTED, CAM_STATE_DISCONNECTED>>,
     <<CAM_STATE_DISCONNECTED, CAM_STATE_WAITING_RECONNECT>>,
     <<CAM_STATE_WAITING_RECONNECT, CAM_STATE_RECONNECTING>>,
     <<CAM_STATE_RECONNECTING, CAM_STATE_CONNECTED>>}

\* the same with Reconnecting -> Connecting in place of Reconnecting -> Connected
StatusPairsAmended ==
    (StatusPairsStated \ {<<CAM_STATE_RECONNECTING, CAM_STATE_CONNECTED>>})
        \cup {<<CAM_STATE_RECONNECTING, CAM_STATE_CONNECTING>>}

\* consecutive reports of every worker are a pair of the set, or end in Stopped
ReportsWithin(pairs) ==
    \A c \in Ctx :
        (/\ obs[c].last # NO_STATUS /\ obs'[c].last # NO_STATUS
         /\ obs'[c].last # obs[c].last)
        => \/ obs'[c].last = CAM_STATE_STOPPED
           \/ <<obs[c].last, obs'[c].last>> \in pairs

\* C8 (as stated): consecutive reported states are Connecting->Connected,
\* Connecting->Disconnected, Connected->Disconnected, Disconnected->Waiting,
\* Waiting->Reconnecting, Reconnecting->Connected, or any->Stopped
C8_StatedTransitions == [][ReportsWithin(StatusPairsStated)]_vars

\* C8 (amended): the same list with Reconnecting->Connecting in place of
\* Reconnecting->Connected
C8_AmendedTransitions == [][ReportsWithin(StatusPairsAmended)]_vars

\* C8 witness: a worker that has reported Connecting, which it does only
\* after Reconnecting
C8_ConnectingAfterReconnecting ==
    \E c \in Ctx : obs[c].last = CAM_STATE_CONNECTING

\* C9: the first status delivered for a newly added camera is Connecting
C9_FirstStatusConnecting ==
    [][\A c \in Ctx :
        (obs[c].last = NO_STATUS /\ obs'[c].last # NO_STATUS)
        => obs'[c].last = CAM_STATE_CONNECTING]_vars

\* C23: processor_initialize on an initialised processor returns 0 and changes
\* nothing: the interrupt pipe and what is pending on it, the pool, the table
\* and the contexts and threads of the registered cameras stay as they are
C23_InitializeIdempotent ==
    [][(/\ g_processor_initialized
        /\ last_call'.op = "init"
        /\ processor_initialize(ActiveHost)) =>
            /\ last_call'.ret = 0
            /\ UNCHANGED <<g_processor_initialized, g_camera_contexts,
                           g_interrupt_pipe, pipe_bytes, ctx, thr, host, obs,
                           poolVars>>]_vars

\* processor_initialize has returned 0 with a camera registered
C23_InitializedAgain ==
    /\ last_call.op = "init"
    /\ last_call.ret = 0
    /\ last_call.card_in > 0
    /\ HASH_COUNT > 0

\* the table holds an entry for the camera id
Registered(camera_id) == \E e \in g_camera_contexts : e.camera_id = camera_id

C24_WakeChecksStop ==
    [][\A c \in Ctx :
        (thr[c].pc = "pacing_sleep" /\ ctx[c].stop_requested /\ W_PacingWake(c))
            => thr'[c].pc = "exit_cleanup"]_vars

\* C14: when callback_pool_get_data gives convert_and_dispatch_frame no
\* descriptor (no free index, or the buffer cannot be allocated), the worker
\* drops that frame only and goes on pumping in CONNECTED: it does not go to
\* the reconnect path and DISCONNECTED is not reported
C14_NoDescriptorKeepsPumping ==
    [][\A c \in Ctx :
        W_CbDataNull(c) =>
            /\ thr'[c].pc = "pump"
            /\ ctx'[c].state = CAM_STATE_CONNECTED]_vars

\* C15: processor_shutdown gives each worker the bounded wait of
\* processor_stop_camera, MAX_ATTEMPTS polls of CHECK_INTERVAL_MS, before it
\* cancels it, and is never left waiting for a worker without a limit
C15_ShutdownWaitsLikeStop ==
    \A h \in Hosts :
        host[h].pc = "shutdown_cancel_join" => host[h].attempt = MAX_ATTEMPTS

\* what C17 requires of the state a processor_shutdown leaves behind
ShutDown ==
    /\ HASH_COUNT = 0
    /\ ~g_interrupt_pipe
    /\ ~g_pool_initialized
    /\ ~g_processor_initialized

StatusCallbackFrom(c) ==
    /\ obs'[c].last # NO_STATUS
    /\ obs'[c].last # obs[c].last \/ obs'[c].stopped_n # obs[c].stopped_n

\* C18: once processor_stop_camera(id) has returned and the id has been added
\* again, no callback carrying the id comes from the previous worker: a
\* worker whose callback reaches the host is the one the table holds for its
\* camera id
C18_NoCallbackFromPreviousWorker ==
    [][\A c \in Ctx :
        (StatusCallbackFrom(c) /\ ctx[c].camera_id # 0)
            => find_context_by_id(ctx[c].camera_id) \in {0, c}]_vars

\* C36: a camera added without a frame callback whose stream is healthy stays
\* connected: a frame that was decoded and chosen for sending (the worker was
\* in the pacing sleep before its dispatch) does not take the worker to the
\* reconnection, whether or not there is a frame_cb to give it to
C36_NoFrameCallbackStaysConnected ==
    [][\A c \in Ctx :
        (/\ thr[c].pc = "pacing_sleep"
         /\ ~ctx[c].freed /\ ~ctx[c].frame_cb /\ ~ctx[c].stop_requested
         /\ ~thr[c].cancel)
            => thr'[c].pc \in {"pacing_sleep", "pump"}]_vars

\* ----------------------------------------------- properties of SpecHosts
\* C20: under every interleaving of processor_add_camera,
\* processor_stop_camera and processor_shutdown called from several host
\* threads, the table holds at most one entry per camera id
C20_OneEntryPerId ==
    \A e1 \in g_camera_contexts, e2 \in g_camera_contexts :
        e1.camera_id = e2.camera_id => e1 = e2

\* one host thread is still waiting in processor_stop_camera for the worker
\* of an id that another host thread has added again in the meantime
C20_ReAddedDuringStop ==
    \E h \in Hosts :
        /\ host[h].pc \in {"stop_tryjoin", "stop_poll"}
        /\ find_context_by_id(host[h].camera_id) # 0

\* C30: of two host threads that call processor_stop_camera for the same
\* registered id at once, one returns 0 and the other -2: a stop called while
\* another thread is inside the stop of that id, and the id has not been
\* added again, returns -2; no two threads wait for the same worker; and the
\* context a stop frees on its return has not been freed before
C30_ConcurrentStopsOneWins ==
    /\ [](\A h \in Hosts, o \in Hosts :
            (/\ h # o
             /\ host[h].pc \in {"stop_tryjoin", "stop_poll"}
             /\ host[o].pc \in {"stop_tryjoin", "stop_poll"})
                => host[h].c # host[o].c)
    /\ [][\A o \in Hosts :
            (/\ host[o].pc \in {"stop_tryjoin", "stop_poll"}
             /\ host' = host /\ last_call' # last_call
             /\ g_processor_initialized
             /\ find_context_by_id(host[o].camera_id) = 0
             /\ last_call'.op = "stop" /\ last_call'.id = host[o].camera_id)
                => last_call'.ret = -2]_vars
    /\ [][\A h \in Hosts :
            (host[h].pc \in {"stop_tryjoin", "stop_poll"} /\ host'[h].pc = "idle")
                => /\ ~ctx[host[h].c].freed /\ ctx'[host[h].c].freed
                   /\ ~InTable(host[h].c)
                   /\ last_call'.ret = 0]_vars

\* the second of two concurrent stops of an id has returned -2 while the
\* first is still waiting for the worker
C30_SecondStopReturned ==
    /\ last_call.op = "stop" /\ last_call.ret = -2
    /\ g_processor_initialized
    /\ \E o \in Hosts :
        /\ host[o].pc \in {"stop_tryjoin", "stop_poll"}
        /\ host[o].camera_id = last_call.id
        /\ find_context_by_id(last_call.id) = 0

\* C31: processor_shutdown is atomic for the other calls: a
\* processor_add_camera that returns while another thread is inside
\* processor_shutdown, past its snapshot of the table, registers nothing, and
\* an uninitialised processor has an empty table, so that no worker is left
\* in it once the pipe is closed and the pool destroyed
C31_ShutdownAtomic ==
    /\ [][\A o \in Hosts :
            (/\ host[o].pc \in {"shutdown_join", "shutdown_cancel_join"}
             /\ host' = host /\ last_call' # last_call
             /\ last_call'.op = "add")
                => last_call'.ret # 0]_vars
    /\ [](~g_processor_initialized => HASH_COUNT = 0)

\* ------------------------------------------------ properties of SpecPool
\* C10: only the first release of a descriptor is accepted: a slot is never
\* twice in the free list
C10_NoDuplicateFreeSlot ==
    \A j \in DOMAIN FreeList, k \in DOMAIN FreeList :
        (j # k /\ FreeList[j] \in PoolSlots) => FreeList[j] # FreeList[k]

\* C11: every descriptor's ref_count is 0 or 1, and no index in the free list
\* refers to a descriptor whose ref_count is not 0
C11_FreeListRefCountZero ==
    g_pool_initialized =>
        /\ \A i \in DOMAIN pool : pool[i].ref_count \in {0, 1}
        /\ \A k \in DOMAIN FreeList :
                FreeList[k] \in DOMAIN pool => pool[FreeList[k]].ref_count = 0

\* C12: a descriptor the host holds has ref_count 1 and its index is not in the
\* free list until the host releases it, so no two held frames share a slot
C12_HeldSlotExclusive ==
    \A i \in DOMAIN held :
        held[i] > 0 =>
            /\ held[i] = 1
            /\ pool[i].ref_count = 1
            /\ \A k \in DOMAIN FreeList : FreeList[k] # i


\* C13: callback_pool_return_data(p) is a no-op that touches neither pool
\* memory nor freed memory when p is null, when p is no element of the pool
\* array, and when the pool is not initialised (a release by the host after
\* the pool was destroyed)
C13_ReleaseOutsidePoolIsNoOp ==
    [][(\/ P_ReleaseNull
        \/ P_ReleaseForeign
        \/ (~g_pool_initialized /\ P_ReleaseAgain)) => UNCHANGED poolVars]_vars

\* C16: once the pool has been destroyed (the end of processor_shutdown) no
\* descriptor has a reference_count above 0, the descriptors the host still
\* holds included
C16_NoDescriptorInUseAfterDestroy ==
    ~g_pool_initialized => \A i \in DOMAIN pool : pool[i].ref_count = 0

\* ------------------------------------------------ properties of SpecCsrc
\* C1: a camera id that was added and stopped can be added again at once:
\* add_camera right after the stop_camera of the same id that returned 0 does
\* not return -4, and when it succeeds the table holds as many cameras as
\* before the stop
C1_ReAddAfterStop ==
    [][(/\ last_call.op = "stop" /\ last_call.ret = 0
        /\ last_call'.op = "add" /\ last_call'.id = last_call.id)
       => /\ last_call'.ret # -4
          /\ last_call'.ret = 0 => last_call'.card = last_call.card_in]_vars

\* C7: a worker never stops on its own: a worker thread that is leaving or
\* has left its loop had its stop requested by stop_camera or shutdown
C7_NeverStopsOnItsOwn ==
    \A c \in Ctx :
        thr[c].pc \in {"exit_cleanup", "c_exit_cleanup", "done"}
        => obs[c].own_stop

\* C22: processor_stop_camera(id) called twice in a row on an initialised
\* processor returns -2 the second time: once a stop of an id has returned 0,
\* the next stop of that id finds it not registered
C22_SecondStopNotFound ==
    (last_call.op = "stop" /\ last_call.ret = 0 /\ g_processor_initialized)
        => processor_stop_camera_csrc_returns(last_call.id) = -2

\* -------------------------------------------- properties of SpecConsumer
\* C19: the callbacks of one camera are serialized: never two threads inside
\* frame_cb for the camera, and no status callback for it while a thread is
\* inside its frame_cb, also across reconnects
C19_CallbacksSerialized ==
    /\ [](\A c \in Ctx :
            ~(thr[c].consumer = "in_cb" /\ thr[c].old_consumer = "in_cb"))
    /\ [][\A c \in Ctx :
            StatusCallbackFrom(c) =>
                (thr[c].consumer # "in_cb" /\ thr[c].old_consumer # "in_cb")]_vars

\* ------------------------------------------------ properties of SpecLoop
\* C25: in every turn of the pump loop taken when more than the stall timeout
\* has passed since the camera's last activity (its last logged activity or
\* its last decoded frame), process_stream returns for the reconnect path,
\* where DISCONNECTED is reported and the back-off entered
C25_StallEndsThePump ==
    [][(/\ run_pc = "pump" /\ ~run_stop
        /\ activity_overdue \/ frame_overdue
        /\ R_Pump) => run_pc' = "reconnect"]_vars

\* C26: an open that fails with an immediate-exit, I/O or network-unreachable
\* error is retried, after a sleep of min(n, 5) seconds before the n-th
\* retry; stop_requested is read after the sleep, and when it is set the loop
\* is left for the reconnect path without another open; any other error
\* leaves the loop for the reconnect path at once
C26_OpenRetries ==
    /\ [][(run_pc = "open" /\ run_pc' # "open") =>
            /\ open_ret' \in RetryableErrors =>
                    /\ run_pc' = "retry_sleep"
                    /\ retry_count' = retry_count + 1
                    /\ wait_seconds' = Min(retry_count', 5)
            /\ open_ret' = "other_error" => run_pc' = "reconnect"]_vars
    /\ [][(run_pc = "retry_sleep" /\ run_pc' # "retry_sleep") =>
            run_pc' = IF run_stop THEN "reconnect" ELSE "open"]_vars

\* the worker in the sleep of its sixth retry, 5 s long, with a stop requested
C26_StopDuringCappedRetry ==
    /\ run_pc = "retry_sleep" /\ run_stop
    /\ retry_count = 6 /\ wait_seconds = 5

\* C27: the k-th reconnect cycle in a row announces clamp(2 * k, 1, 30)
\* seconds with WAITING_RECONNECT and waits that long, in naps of 100 ms,
\* before RECONNECTING is posted; the attempt counter grows by 1 per cycle and
\* is 0 after every successful connect; a stop request seen in the wait leads
\* to the exit without RECONNECTING
C27_BackoffWaitsAnnouncedDelay ==
    /\ [][(run_pc = "backoff" /\ run_pc' = "waiting") =>
            /\ reconnect_attempts' = reconnect_attempts + 1
            /\ delay_seconds' = Min(30, 2 * reconnect_attempts')
            /\ delay_seconds' >= 1
            /\ run_state' = CAM_STATE_WAITING_RECONNECT]_vars
    /\ [][(run_pc = "open" /\ run_pc' = "connected") =>
            reconnect_attempts' = 0]_vars
    /\ [][(run_pc = "waiting" /\ run_state' = CAM_STATE_RECONNECTING) =>
            naps = NapsPerSecond * delay_seconds]_vars
    /\ [][(run_pc = "waiting" /\ run_stop /\ run_pc' # "waiting") =>
            (run_pc' = "exit_cleanup" /\ run_state' # CAM_STATE_RECONNECTING)]_vars

\* ---------------------------------------------- properties of SpecPacing
\* C28: with PTS jumps of more than pts_jump_reset_threshold_sec in the
\* stream, forwards or backwards, delivery goes on: while frames keep arriving
\* the worker never sleeps longer than the threshold before a frame, and never
\* leaves frame_cb without a frame for longer than the threshold
C28_JumpNeitherSleepsNorStalls ==
    pace_pc = "pump" =>
        /\ slept * TickMs <= pts_jump_reset_threshold_ms
        /\ since_sent * TickMs <= pts_jump_reset_threshold_ms

\* C29: every frame that goes to frame_cb has a PTS strictly greater than the
\* last_sent_pts recorded before it, and becomes the new last_sent_pts
C29_LastSentPtsIncreases ==
    [][(pace_pc = "pump" /\ decoded'.sent) =>
            /\ decoded'.pts > last_sent_pts
            /\ last_sent_pts' = decoded'.pts]_vars

\* a frame sent after frames were sent before it and after the anchor was
\* reset on a forward jump
C29_SentAfterJump ==
    /\ pace_pc = "pump" /\ decoded.sent
    /\ last_sent_pts = decoded.pts
    /\ first_pts >= JumpSize + 1
    /\ decoded.pts > first_pts


\* C34: a frame with a PTS is chosen for sending without condition when it is
\* the first of the connection (first_pts not set), and a later one is chosen
\* if and only if (pts - last_sent_pts) * pts_time_base >= 1 / target_fps.  A
\* chosen frame goes to convert_and_dispatch_frame: it reaches frame_cb, or
\* the stream is given up
C34_SentIffIntervalReached ==
    [][pace_pc = "pump" =>
        LET chosen == decoded'.sent \/ pace_pc' = "reconnect" IN
            /\ first_pts = AV_NOPTS_VALUE => chosen
            /\ first_pts # AV_NOPTS_VALUE =>
                (chosen <=>
                    (decoded'.pts - last_sent_pts) * TickMs * TargetFps >= 1000)]_vars

\* a later frame, one tick after the frame sent last, was left out
C34_LaterFrameSkipped ==
    /\ pace_pc = "pump" /\ ~decoded.sent
    /\ first_pts # AV_NOPTS_VALUE /\ last_sent_pts # AV_NOPTS_VALUE
    /\ decoded.pts = last_sent_pts + 1
    /\ (decoded.pts - last_sent_pts) * TickMs * TargetFps < 1000

\* -------------------------------------------------- properties of SpecPump
\* C35: av_read_frame returning EOF or an error other than EAGAIN ends
\* process_stream with false (the reconnect path); EAGAIN goes on reading; a
\* packet of the video stream is given to avcodec_send_packet and released
\* whatever that returned; the receive loop is left on EAGAIN or EOF
C35_PumpResults ==
    [][ps_stop' = ps_stop =>
        /\ (ps_ret'.op = "read" /\ ps_ret'.ret \in {"EOF", "error"})
                => ps_pc' = "returned_false"
        /\ (ps_ret'.op = "read" /\ ps_ret'.ret = "EAGAIN")
                => (ps_pc' = "loop" /\ packet_ref' = "none")
        /\ (ps_ret'.op = "read" /\ ps_ret'.ret = "video")
                => (ps_pc' = "send" /\ packet_ref' = "video")
        /\ ps_pc = "send"
                => (ps_ret'.op = "send" /\ packet_ref' = "none"
                    /\ ps_pc' = "receive")
        /\ (ps_ret'.op = "receive" /\ ps_ret'.ret \in {"EAGAIN", "EOF"})
                => ps_pc' = "loop"]_pumpVars

\* after frames of earlier packets, the decoder refused a video packet: the
\* packet is released and the receive loop entered
C35_RefusedPacketReleased ==
    /\ ps_pc = "receive"
    /\ ps_ret = Ret("send", "error")
    /\ packet_ref = "none"
    /\ frame_input_counter > 0

\* ------------------------------------------------- properties of SpecMutex
\* C32: no thread stays blocked on contexts_mutex or on g_pool_mutex: a
\* worker that has ended (returned or cancelled by processor_shutdown) does
\* not own g_pool_mutex, and a host waiting for a worker to end is not inside
\* contexts_mutex (another call can be made meanwhile)
C32_NoMutexLeftLocked ==
    \A c \in Ctx : Terminated(c) => thr[c].pc # "cancelled_locked"

\* processor_shutdown has joined every worker and is at callback_pool_destroy
\* with g_pool_mutex owned by a worker that no longer exists
C32_DestroyBlocked ==
    \E h \in Hosts :
        /\ host[h].pc = "shutdown_join"
        /\ host[h].list = <<>>
        /\ g_pool_initialized
        /\ PoolMutexHeld
        /\ \A c \in Ctx : ~Running(c)
        /\ ~ENABLED shutdown_finish(h)


\* ---------------------------------------------- properties of SpecPoolOnce
\* descriptors of the pool whose ref_count is 1
InUse == {i \in DOMAIN pool : pool[i].ref_count = 1}

\* C33: with every delivered descriptor released once, the free count stays
\* within 0..g_pool_size, the free list holds distinct indices, the free count
\* plus the number of descriptors with ref_count 1 is g_pool_size, and a
\* callback_pool_get_data that fails after its pop puts the popped index back
\* once (it is in the free list once afterwards, with ref_count 0)
C33_PoolCountsKept ==
    /\ [](g_pool_initialized =>
            /\ g_pool_free_count \in 0..g_pool_size
            /\ \A j \in DOMAIN FreeList, k \in DOMAIN FreeList :
                    j # k => FreeList[j] # FreeList[k]
            /\ g_pool_free_count + Cardinality(InUse) = g_pool_size)
    /\ [][\A w \in Ctx :
            (acq[w] # <<>> /\ acq'[w] = <<>> /\ held' = held) =>
                /\ g_pool_free_count' = g_pool_free_count + 1
                /\ Cardinality({k \in 1..g_pool_free_count' :
                                    g_pool_indices'[k] = acq[w][1]}) = 1
                /\ pool'[acq[w][1]].ref_count = 0]_vars

\* a worker's callback_pool_get_data has failed after its pop while the other
\* worker holds the other slot popped and not yet filled
C33_FailedWhileOtherAcquires ==
    \E w \in Ctx, v \in Ctx :
        /\ w # v
        /\ acq[w] = <<>> /\ acq[v] # <<>>
        /\ g_pool_initialized
        /\ g_pool_free_count = g_pool_size - 1
        /\ g_pool_indices[g_pool_free_count] # g_pool_free_count - 1
        /\ stale = {} /\ \A i \in DOMAIN held : held[i] = 0


\* -------------------------------------------------- properties of SpecSkip
\* C37: at the end of an input window the measured rate becomes the source
\* estimate exactly when it is the first measurement of the connection or
\* differs from the estimate by more than 1.0; on adoption the skip ratio
\* (estimate / target_fps) and its floor are recomputed only when target_fps >
\* 0 and the estimate is above target_fps; at decoder setup the skip ratio is
\* estimate / target_fps when target_fps is below the estimate and 1.0 otherwise
C37_EstimateAndSkipRatio ==
    [][/\ fps_op' = "window" =>
            LET m == calculated_input_fps'
                adopted == \/ ~has_real_fps_measurement
                           \/ Abs(m - estimated_source_fps) > FpsUnit
                recomputed == adopted /\ target_fps > 0 /\ m > target_fps * FpsUnit
            IN  /\ estimated_source_fps' = IF adopted THEN m
                                           ELSE estimated_source_fps
                /\ frame_skip_ratio' = IF recomputed THEN m ELSE frame_skip_ratio
                /\ frame_skip_count' = IF recomputed THEN m \div SkipOne
                                       ELSE frame_skip_count
       /\ fps_op' = "setup" =>
            frame_skip_ratio' = IF target_fps * FpsUnit < estimated_source_fps'
                                THEN estimated_source_fps' ELSE SkipOne]_skipVars

\* a second measurement one FPS off the estimate was not adopted, after a
\* first one that was and that set a skip ratio with a fraction
C37_SecondMeasurementKept ==
    /\ fps_op = "window"
    /\ has_real_fps_measurement
    /\ Abs(calculated_input_fps - estimated_source_fps) = FpsUnit
    /\ frame_skip_ratio = estimated_source_fps
    /\ frame_skip_ratio > frame_skip_count * SkipOne

\* C38: a frame without PTS adds one to the accumulator; it is sent exactly
\* when the skip ratio is at most 1 or the accumulator has reached the skip
\* ratio, and every frame sent takes the skip ratio off the accumulator
C38_AccumulatorOnEverySend ==
    [][fps_op' = "frame" =>
        LET accumulated == frame_skip_accumulator + SkipOne IN
            /\ skip_sent' <=> (\/ frame_skip_ratio <= SkipOne
                               \/ accumulated >= frame_skip_ratio)
            /\ frame_skip_accumulator' =
                    IF skip_sent' THEN accumulated - frame_skip_ratio
                    ELSE accumulated]_skipVars

\* C39 as stated: the guessed rate is the initial estimate exactly when it is
\* from 5 to 65 FPS, both included, and the estimate is 30 FPS otherwise
C39_GuessFrom5To65 ==
    [][fps_op' = "setup" =>
        estimated_source_fps' =
            IF detected_fps' >= 5 * FpsUnit /\ detected_fps' <= 65 * FpsUnit
            THEN detected_fps' ELSE 30 * FpsUnit]_skipVars

\* C39, amended: the guessed rate is the initial estimate exactly when it is
\* above 4 and below 65 FPS, and the estimate is 30 FPS otherwise
C39_GuessAbove4Below65 ==
    [][fps_op' = "setup" =>
        estimated_source_fps' =
            IF detected_fps' > 4 * FpsUnit /\ detected_fps' < 65 * FpsUnit
            THEN detected_fps' ELSE 30 * FpsUnit]_skipVars

\* a guessed rate of exactly 65 FPS gave the initial estimate of 30 FPS
C39_Guess65Gives30 ==
    /\ fps_op = "setup"
    /\ detected_fps = 65 * FpsUnit
    /\ estimated_source_fps = 30 * FpsUnit


\* ------------------------------------------------- properties of SpecQueue
\* frames in the ring
Queued == {q_frames[i] : i \in DOMAIN q_frames} \ {0}

\* C40: the size of the queue stays within 0..capacity and is frames_pushed -
\* frames_popped; frame_queue_pop returns the frames in the order of their
\* pushes (always the oldest frame in the ring); a push that waited with the
\* queue full and timed out leaves the ring as it was and counts the frame in
\* frames_dropped; once stop is requested no call enqueues or dequeues
C40_FrameQueue ==
    /\ [](q_size \in 0..QueueCapacity)
    /\ [](frames_pushed - frames_popped = q_size)
    /\ [][frames_popped' # frames_popped =>
            /\ last_popped' \in Queued
            /\ \A f \in Queued : last_popped' <= f
            /\ last_popped' > last_popped]_queueVars
    /\ [][(/\ q_push.pc = "waiting" /\ q_push'.pc = "idle"
           /\ q_size >= QueueCapacity /\ ~q_stop)
            => (/\ frames_dropped' = frames_dropped + 1
                /\ UNCHANGED <<q_frames, q_size, frames_pushed>>)]_queueVars
    /\ [][q_stop =>
            UNCHANGED <<q_frames, q_size, frames_pushed, frames_popped>>]_queueVars

\* the ring has wrapped and is full again, after a frame was dropped on a
\* timeout and frames were popped
C40_FullAfterDropAndWrap ==
    /\ q_size = QueueCapacity
    /\ frames_dropped > 0
    /\ frames_popped > 0
    /\ q_head # 0
    /\ ~q_stop

====
